---- MODULE Spec2Model ----
(***************************************************************************)
(* Model of the powder-diffraction engine of Mint (src/src/diffraction.h,  *)
(* src/src/diffraction.cpp): the calculated pattern (peak enumeration,     *)
(* matching to a reference, staged refinement) and the experimental        *)
(* pattern (import of processed or raw data).                              *)
(*                                                                         *)
(* Fixed-point conventions of the model                                    *)
(*   Bragg angles (2theta)       integer hundredths of a degree            *)
(*   lattice lengths, wavelength integer hundredths of an Angstrom         *)
(*   lattice angles              integer degrees                           *)
(*   fractional coordinates      integer quarters of a cell edge           *)
(*   relative lattice change     integer percent                           *)
(*   R factors                   integer hundredths                        *)
(*   B factors, W                integer tenths                            *)
(***************************************************************************)
EXTENDS Integers, Sequences, FiniteSets, TLC

(***************************************************************************)
(* Bounds of the model                                                     *)
(***************************************************************************)

\* the most peaks locatePeaks finds in a raw pattern
MaxRawPeaks == 2

(***************************************************************************)
(* Program constants                                                       *)
(***************************************************************************)
\* Diffraction::Diffraction() : _wavelength = 1.5418
DefaultWavelength == 154

\* Diffraction::Diffraction() : _minTwoTheta = 10
DefaultMinTwoTheta == 1000

\* Diffraction::Diffraction() : _maxTwoTheta = 100
DefaultMaxTwoTheta == 10000

\* Diffraction::Diffraction() : _resolution = 0.02
DefaultResolution == 2

\* Diffraction::matchPeaksToReference : double tol = 0.15
MatchTol == 15

\* ExperimentalPattern::set : twoTheta.size() < 500
ProcessedSizeLimit == 500

\* CalculatedPattern::CalculatedPattern() : _maxLatChange = 0.05
DefaultMaxLatChange == 5

\* CalculatedPattern::rietveldRefinement : if (curR > 0.9)
DivergenceR == 90

(***************************************************************************)
(* Small vector and matrix helpers (Vector3D, Matrix3D)                    *)
(***************************************************************************)
Abs(x) == IF x < 0 THEN -x ELSE x

Max2(a, b) == IF a > b THEN a ELSE b

MatVec(m, v) ==
    << m[1][1] * v[1] + m[1][2] * v[2] + m[1][3] * v[3],
       m[2][1] * v[1] + m[2][2] * v[2] + m[2][3] * v[3],
       m[3][1] * v[1] + m[3][2] * v[2] + m[3][3] * v[3] >>

Diag(a, b, c) == << <<a, 0, 0>>, <<0, b, 0>>, <<0, 0, c>> >>

Identity3 == Diag(1, 1, 1)

RECURSIVE SeqSum(_)
SeqSum(s) == IF s = << >> THEN 0 ELSE Head(s) + SeqSum(Tail(s))

RECURSIVE SeqMax(_)
SeqMax(s) == IF Len(s) = 1 THEN s[1] ELSE Max2(Head(s), SeqMax(Tail(s)))

(***************************************************************************)
(* Symmetry (external collaborator): the orthorhombic point groups used as *)
(* inputs.  operations()[i].rotation() in the order the object lists them. *)
(***************************************************************************)
Operations(sym) ==
    IF sym = "P222"
    THEN << Identity3, Diag(1, -1, -1), Diag(-1, 1, -1), Diag(-1, -1, 1) >>
    ELSE << Identity3, Diag(1, -1, -1), Diag(-1, 1, -1), Diag(-1, -1, 1),
            Diag(-1, -1, -1), Diag(-1, 1, 1), Diag(1, -1, 1), Diag(1, 1, -1) >>

\* Symmetry::refineBasis : projection of a proposed cell onto the constraints
\* of the space group; for an orthorhombic group the three angles are 90
\* degrees and the lengths are free.
RefineBasis(sym, basis) == [lengths |-> basis.lengths, angles |-> <<90, 90, 90>>]

(***************************************************************************)
(* Bragg angle: CalculatedPeak::getDiffractionAngle                        *)
(*   arg = |B^-1 hkl| * lambda / 2 ; asin(arg) clamped to [-pi/2, pi/2].   *)
(* SinSqTable[k+1] = 10000 sin^2(theta) at 2theta = 10k degrees; asin is   *)
(* evaluated by linear interpolation in this table.                        *)
(***************************************************************************)
SinSqTable == << 0, 76, 302, 670, 1170, 1786, 2500, 3290, 4132, 5000,
                 5868, 6710, 7500, 8214, 8830, 9330, 9698, 9924, 10000 >>

\* 10000 * sin^2(twoTheta / 2) for twoTheta in hundredths of a degree
SinSqOfTwoTheta(tt) ==
    IF tt >= 18000 THEN 10000
    ELSE IF tt <= 0 THEN 0
    ELSE LET k == tt \div 1000
         IN  SinSqTable[k + 1]
               + ((SinSqTable[k + 2] - SinSqTable[k + 1]) * (tt - 1000 * k)) \div 1000

\* 2 * asin(sqrt(s2 / 10000)) in hundredths of a degree
TwoThetaOfSinSq(s2) ==
    IF s2 >= 10000 THEN 18000
    ELSE LET k == CHOOSE j \in 0..17 : SinSqTable[j + 1] <= s2 /\ s2 < SinSqTable[j + 2]
         IN  1000 * k + (1000 * (s2 - SinSqTable[k + 1]))
                           \div (SinSqTable[k + 2] - SinSqTable[k + 1])

\* 10000 * (|B^-1 hkl| lambda / 2)^2 for a cell with orthogonal axes
ArgSquared(lengths, hkl, wavelength) ==
      (2500 * wavelength * wavelength * hkl[1] * hkl[1]) \div (lengths[1] * lengths[1])
    + (2500 * wavelength * wavelength * hkl[2] * hkl[2]) \div (lengths[2] * lengths[2])
    + (2500 * wavelength * wavelength * hkl[3] * hkl[3]) \div (lengths[3] * lengths[3])

getDiffractionAngle(lengths, hkl, wavelength) ==
    TwoThetaOfSinSq(ArgSquared(lengths, hkl, wavelength))

(***************************************************************************)
(* Peak enumerator: CalculatedPattern::calculatePeakLocations              *)
(***************************************************************************)
\* range[i] = |ceil(maxMag / |b*_i|)| with maxMag = 2 sin(maxTwoTheta/2) / lambda
HklRange(len, wavelength, maxTwoTheta) ==
    LET \* n >= maxMag / |b*_i|  iff  n^2 lambda^2 >= 4 sin^2(maxTwoTheta/2) len^2
        lhs(n) == n * n * wavelength * wavelength
        rhs    == (SinSqOfTwoTheta(maxTwoTheta) * len * len + 2499) \div 2500
    IN  CHOOSE n \in 0..8 : lhs(n) >= rhs /\ \A m \in 0..(n - 1) : lhs(m) < rhs

\* the symmetry rotations with the first identity removed
NonIdentityOps(sym) ==
    LET ops == Operations(sym)
        first == IF \E i \in 1..Len(ops) : ops[i] = Identity3
                 THEN CHOOSE i \in 1..Len(ops) :
                          ops[i] = Identity3 /\ \A j \in 1..(i - 1) : ops[j] # Identity3
                 ELSE 0
    IN  IF first = 0 THEN ops
        ELSE [i \in 1..(Len(ops) - 1) |-> IF i < first THEN ops[i] ELSE ops[i + 1]]

\* variant: only the first index decides
LexSmallerFirstIndex(symHKL, redHKL) == symHKL[1] < redHKL[1]

\* "is an image lexicographically smaller than the seed" (mult = 0)
LexSmaller(symHKL, redHKL) ==
    \/ symHKL[1] < redHKL[1]
    \/ symHKL[1] = redHKL[1] /\ symHKL[2] < redHKL[2]
    \/ symHKL[1] = redHKL[1] /\ symHKL[2] = redHKL[2] /\ symHKL[3] < redHKL[3]

\* variant: every image is appended, known or not
RECURSIVE EquivLoopAppendingAll(_, _, _, _)
EquivLoopAppendingAll(ops, i, redHKL, equivPoints) ==
    IF i > Len(ops) THEN equivPoints
    ELSE IF LexSmaller(MatVec(ops[i], redHKL), redHKL) THEN << >>
         ELSE EquivLoopAppendingAll(ops, i + 1, redHKL,
                                    Append(equivPoints, MatVec(ops[i], redHKL)))

\* the loop over operations for one seed: << >> when the seed is discarded
\* (mult = 0), else the list equivPoints (seed first, distinct images after)
RECURSIVE EquivLoop(_, _, _, _)
EquivLoop(ops, i, redHKL, equivPoints) ==
    IF i > Len(ops) THEN equivPoints
    ELSE LET symHKL == MatVec(ops[i], redHKL)
         IN  IF LexSmaller(symHKL, redHKL) THEN << >>
             ELSE IF \E j \in 1..Len(equivPoints) : equivPoints[j] = symHKL
                  THEN EquivLoop(ops, i + 1, redHKL, equivPoints)
                  ELSE EquivLoop(ops, i + 1, redHKL, Append(equivPoints, symHKL))

EquivPoints(sym, redHKL) == EquivLoop(NonIdentityOps(sym), 1, redHKL, <<redHKL>>)

\* CalculatedPeak::CalculatedPeak : DiffractionPeak(-1, -1), multiplicity,
\* updatePeakPosition()
NewCalculatedPeak(lengths, wavelength, hkl, equivHKL) ==
    [ hkl          |-> hkl,
      equivHKL     |-> equivHKL,
      multiplicity |-> Len(equivHKL),
      twoTheta     |-> getDiffractionAngle(lengths, hkl, wavelength),
      intensity    |-> -1,
      patternIndex |-> -1 ]

\* the triple loop over redHKL, in the order of the loops
HklBox(r) ==
    LET n1 == 2 * r[1] + 1
        n2 == 2 * r[2] + 1
        n3 == 2 * r[3] + 1
    IN  [ i \in 1..(n1 * n2 * n3) |->
            << ((i - 1) \div (n2 * n3)) - r[1],
               (((i - 1) \div n3) % n2) - r[2],
               ((i - 1) % n3) - r[3] >> ]

\* the seeds that survive the canonical test and the angular window, in the
\* order of the loops, each pushed as a new CalculatedPeak
EmitPeaks(box, sym, lengths, wavelength, minTT, maxTT) ==
    LET keep == { i \in 1..Len(box) :
                    /\ EquivPoints(sym, box[i]) # << >>
                    /\ ~ ( getDiffractionAngle(lengths, box[i], wavelength) < minTT
                           \/ getDiffractionAngle(lengths, box[i], wavelength) > maxTT ) }
        nth(j) == CHOOSE i \in keep : Cardinality({k \in keep : k < i}) = j - 1
    IN  [ j \in 1..Cardinality(keep) |->
            NewCalculatedPeak(lengths, wavelength, box[nth(j)], EquivPoints(sym, box[nth(j)])) ]

\* std::sort(_reflections) with operator< on TwoThetaDeg (insertion sort,
\* which is what std::sort does on ranges this short)
RECURSIVE InsertPeak(_, _)
InsertPeak(sorted, p) ==
    IF sorted = << >> THEN <<p>>
    ELSE IF p.twoTheta < sorted[Len(sorted)].twoTheta
         THEN Append(InsertPeak(SubSeq(sorted, 1, Len(sorted) - 1), p), sorted[Len(sorted)])
         ELSE Append(sorted, p)

RECURSIVE SortPeaksFrom(_, _, _)
SortPeaksFrom(peaks, i, acc) ==
    IF i > Len(peaks) THEN acc
    ELSE SortPeaksFrom(peaks, i + 1, InsertPeak(acc, peaks[i]))

SortPeaks(peaks) == SortPeaksFrom(peaks, 1, << >>)

calculatePeakLocations(sym, lengths, wavelength, minTT, maxTT) ==
    LET r == << HklRange(lengths[1], wavelength, maxTT),
                HklRange(lengths[2], wavelength, maxTT),
                HklRange(lengths[3], wavelength, maxTT) >>
    IN  SortPeaks(EmitPeaks(HklBox(r), sym, lengths, wavelength, minTT, maxTT))

(***************************************************************************)
(* Experimental pattern: ExperimentalPattern::set(twoTheta, intensity)     *)
(***************************************************************************)
\* the data sets handed to ExperimentalPattern::set, as (angle, intensity)
\* pairs in the order the caller gives them
ExpInputNames ==
    { "one", "same2", "pair", "uni3", "int3", "near3", "tight3", "uni5",
      "non499", "non500", "uni499", "uni501" }

\* the data sets used as references for refinement
MainInputs == { "int3", "uni5" }

\* n points starting at 'first', 'step' apart, the last one 'extra' further
Grid(n, first, step, extra) ==
    [ i \in 1..n |-> << first + step * (i - 1) + (IF i = n THEN extra ELSE 0),
                        1 + ((7 * i) % 5) >> ]

ExpInput(name) ==
    CASE name = "one"     -> << <<5742, 10>> >>
      [] name = "same2"   -> << <<5742, 10>>, <<5742, 4>> >>
      [] name = "pair"    -> << <<8576, 5>>, <<5742, 10>> >>
      [] name = "uni3"    -> << <<5742, 10>>, <<5842, 3>>, <<5642, 6>> >>
      [] name = "int3"    -> << <<8576, 5>>, <<5439, 10>>, <<5742, 20>> >>
      [] name = "near3"   -> << <<5730, 10>>, <<5760, 20>>, <<8560, 5>> >>
      [] name = "tight3"  -> << <<5700, 10>>, <<5742, 20>>, <<5760, 5>> >>
      [] name = "uni5"    -> Grid(5, 5400, 900, 0)
      [] name = "non499"  -> Grid(499, 2000, 10, 7)
      [] name = "non500"  -> Grid(500, 2000, 10, 7)
      [] name = "uni499"  -> Grid(499, 2000, 10, 0)
      [] name = "uni501"  -> Grid(501, 2000, 10, 0)

\* operator< of std::pair<double,double>
PairLess(a, b) == a[1] < b[1] \/ (a[1] = b[1] /\ a[2] < b[2])

\* sort(twoThetaIntensityPairs.begin(), twoThetaIntensityPairs.end())
SortPairs(s) ==
    LET n     == Len(s)
        ranks == { << i, 1 + Cardinality({ j \in 1..n :
                           PairLess(s[j], s[i]) \/ (s[j] = s[i] /\ j < i) }) >> : i \in 1..n }
    IN  [ k \in 1..n |-> s[(CHOOSE p \in ranks : p[2] = k)[1]] ]

\* the loop "get max and min distances between them"; the data are sorted, so
\* the loop's running minimum and maximum are those of the differences
SpacingRange(t) ==
    LET n     == Len(t)
        difs  == { t[i][1] - t[i - 1][1] : i \in 2..n }
        first == IF n >= 2 THEN t[2][1] - t[1][1] ELSE 0
    IN  IF n < 2 THEN [minDif |-> 0, maxDif |-> 0]
        ELSE [ minDif |-> CHOOSE d \in difs : \A e \in difs : d <= e,
               maxDif |-> CHOOSE d \in difs : \A e \in difs : d >= e ]

\* variant: the size test joined by "or"
AlreadyProcessedEither(t) ==
    LET r == SpacingRange(t)
    IN  \/ (10 * r.maxDif > 11 * r.minDif) \/ (r.maxDif = 0)
        \/ Len(t) < ProcessedSizeLimit

\* if (((maxDif > 1.1 * minDif) || (maxDif == 0)) && twoTheta.size() < 500)
AlreadyProcessed(t) ==
    LET r == SpacingRange(t)
    IN  /\ (10 * r.maxDif > 11 * r.minDif) \/ (r.maxDif = 0)
        /\ Len(t) < ProcessedSizeLimit

\* DiffractionPeak(twoThetaDegrees, intensity)
NewDiffractionPeak(tt, intensity) ==
    [twoTheta |-> tt, intensity |-> intensity, patternIndex |-> -1]

\* std::sort(_diffractionPeaks) with DiffractionPeak::operator< (angle only);
\* equal angles keep their order
SortMeasured(peaks) ==
    LET n     == Len(peaks)
        ranks == { << i, 1 + Cardinality({ j \in 1..n :
                           \/ peaks[j].twoTheta < peaks[i].twoTheta
                           \/ (peaks[j].twoTheta = peaks[i].twoTheta /\ j < i) }) >> : i \in 1..n }
    IN  [ k \in 1..n |-> peaks[(CHOOSE p \in ranks : p[2] = k)[1]] ]

\* the outcome of fitting and integrating one located peak (Fit::LM,
\* Solve::maximize, dlib::integrate_function_adapt_simp): the position of the
\* fitted maximum and the integrated intensity
FitOutcomes(minTT, maxTT) ==
    { [location |-> minTT,     intensity |-> 7],
      [location |-> maxTT,     intensity |-> 0],
      [location |-> minTT - 1, intensity |-> 7],
      [location |-> maxTT + 1, intensity |-> 7],
      [location |-> maxTT,     intensity |-> -1] }

\* the fits of the located peaks, in the order of the peaks
FitSequences(minTT, maxTT) ==
    UNION { [1..k -> FitOutcomes(minTT, maxTT)] : k \in 0..MaxRawPeaks }

\* variant: only the test of the location
FitRejectedByLocation(fit, minTT, maxTT) ==
    fit.location < minTT \/ fit.location > maxTT

\* "Check that results make sense": the two tests that throw 10
FitRejected(fit, minTT, maxTT) ==
    \/ fit.intensity < 0
    \/ fit.location < minTT \/ fit.location > maxTT

\* Part #5 of getPeakIntensities: push a peak per fit until one is rejected
getPeakIntensities(fits, minTT, maxTT) ==
    LET bad    == { i \in 1..Len(fits) : FitRejected(fits[i], minTT, maxTT) }
        thrown == bad # {}
        upto   == IF thrown THEN (CHOOSE i \in bad : \A j \in bad : i <= j) - 1
                  ELSE Len(fits)
    IN  [ thrown |-> thrown,
          peaks  |-> [ i \in 1..upto |->
                         NewDiffractionPeak(fits[i].location, fits[i].intensity) ] ]

\* ExperimentalPattern::clear
ExpClear(r) ==
    [ r EXCEPT !.type = "PT_NONE", !.matchingPeaks = << >>, !.unmatchedPeaks = << >>,
               !.continuous = << >>, !.diffractionPeaks = << >>,
               !.importFailed = FALSE, !.fits = << >> ]

\* the branch "Save peaks if data is already processed"
ExpSetProcessed(r, t) ==
    LET peaks == SortMeasured([ i \in 1..Len(t) |-> NewDiffractionPeak(t[i][1], t[i][2]) ])
    IN  [ r EXCEPT !.type = "PT_EXP_INT",
                   !.diffractionPeaks = peaks,
                   !.minTwoTheta = peaks[1].twoTheta - r.resolution,
                   !.maxTwoTheta = peaks[Len(peaks)].twoTheta + r.resolution \div 2 ]

\* the branch "Save peaks after processing"
ExpSetRaw(r, t, fits) ==
    LET minTT == t[1][1]
        maxTT == t[Len(t)][1]
        got   == getPeakIntensities(fits, minTT, maxTT)
    IN  [ r EXCEPT !.type = "PT_EXP_RAW",
                   !.continuous = t,
                   !.minTwoTheta = minTT,
                   !.maxTwoTheta = maxTT,
                   !.diffractionPeaks = IF got.thrown THEN << >> ELSE got.peaks,
                   !.importFailed = got.thrown, !.fits = fits ]

\* the sorted data of every input, tabulated as <<name, data>> pairs
SortedInputTable == { << name, SortPairs(ExpInput(name)) >> : name \in ExpInputNames }

SortedInput(name) == (CHOOSE p \in SortedInputTable : p[1] = name)[2]

\* ExperimentalPattern::getDiffractedPeaks : Output::quit() on an empty list
ExpGetDiffractedPeaks(r) ==
    IF Len(r.diffractionPeaks) = 0
    THEN [quit |-> TRUE, peaks |-> << >>]
    ELSE [quit |-> FALSE, peaks |-> r.diffractionPeaks]

\* ExperimentalPattern::getMeasurementAngles / getMeasuredIntensities :
\* Output::quit() when no continuous pattern is stored
ExpGetMeasurement(r) ==
    IF Len(r.continuous) = 0
    THEN [quit |-> TRUE, points |-> << >>]
    ELSE [quit |-> FALSE, points |-> r.continuous]

(***************************************************************************)
(* Calculated pattern: construction, clear, structure and reference        *)
(***************************************************************************)
\* the literal 1e100 that stands for "no bound"
Unbounded == 1000000000

\* the structures the caller owns: basis (lengths, angles), the
\* representative fractional coordinates of each orbit, and the symmetry
\* object that goes with them (space group, and per orbit the generators of
\* its atoms and the projection onto its special position)
StructInputs ==
    { [ lengths |-> <<160, 160, 160>>, angles |-> <<90, 90, 90>>,
        positions |-> << <<0, 0, 0>>, <<1, 1, 1>> >>, symmetry |-> "P222",
        generators |-> << <<1>>, <<1, 2, 3, 4>> >>,
        special |-> << Diag(0, 0, 0), Identity3 >> ],
      [ lengths |-> <<160, 160, 168>>, angles |-> <<90, 90, 90>>,
        positions |-> << <<0, 0, 0>> >>, symmetry |-> "Pmmm",
        generators |-> << <<1>> >>,
        special |-> << Diag(0, 0, 0) >> ] }

\* Diffraction::Diffraction() and CalculatedPattern::CalculatedPattern()
CalcConstructed ==
    [ type |-> "PT_NONE", method |-> "DM_NONE",
      wavelength |-> DefaultWavelength,
      minTwoTheta |-> DefaultMinTwoTheta, maxTwoTheta |-> DefaultMaxTwoTheta,
      resolution |-> DefaultResolution,
      optimalScale |-> 1000,
      matchingPeaks |-> << >>, unmatchedPeaks |-> << >>,
      structureDefined |-> FALSE,
      reflections |-> << >>,
      originalLengths |-> <<0, 0, 0>>, originalAngles |-> <<0, 0, 0>>,
      maxLatChange |-> DefaultMaxLatChange,
      BFactors |-> << >>, minBFactor |-> 1, maxBFactor |-> 40,
      numBackground |-> 5, backgroundParameters |-> << >>,
      shiftParameters |-> <<0, 0, 0, 0, 0, 0>>,
      U |-> 0, V |-> 0, W |-> 3, eta0 |-> 5, eta1 |-> 0, eta2 |-> 0,
      measurementAngles |-> << >>,
      preferredOrientation |-> <<1, 0, 0>>,
      currentlyRefining |-> {} ]

\* Diffraction::clear followed by the body of CalculatedPattern::clear
CalcClear(c) ==
    [ c EXCEPT !.type = "PT_NONE",
               !.matchingPeaks = << >>, !.unmatchedPeaks = << >>,
               !.structureDefined = FALSE,
               !.U = 0, !.V = 0, !.W = 3,
               !.eta0 = 5, !.eta1 = 0, !.eta2 = 0,
               !.shiftParameters = <<0, 0, 0, 0, 0, 0>>,
               !.backgroundParameters = << >>,
               !.measurementAngles = << >>,
               !.preferredOrientation = <<1, 0, 0>> ]

\* CalculatedPattern::initializeRefinementParameters : one B factor of 0.5
\* per orbit
initializeRefinementParameters(c, iso) ==
    [ c EXCEPT !.BFactors = [ i \in 1..Len(iso.positions) |-> 5 ] ]

\* the angular windows of the patterns used for refinement: the
\* constructor's, and those an experimental pattern takes from its data
\* (processed: first peak minus the resolution to last peak plus half of it;
\* raw: first to last angle)
Windows ==
    { <<DefaultMinTwoTheta, DefaultMaxTwoTheta>> }
      \cup { << SortedInput(n)[1][1] - DefaultResolution,
                SortedInput(n)[Len(SortedInput(n))][1] + DefaultResolution \div 2 >> :
              n \in MainInputs }
      \cup { << SortedInput(n)[1][1], SortedInput(n)[Len(SortedInput(n))][1] >> :
              n \in MainInputs }

\* calculatePeakLocations of every input structure and window, tabulated as
\* <<structure, window, peaks>> triples
PeakTable ==
    { << k[1], k[2],
         calculatePeakLocations(k[1].symmetry, k[1].lengths, DefaultWavelength,
                                k[2][1], k[2][2]) >> : k \in StructInputs \X Windows }

\* the call of calculatePeakLocations() for the pattern's current settings
PeakLocations(c, iso) ==
    IF /\ \E p \in PeakTable : /\ p[1].symmetry = iso.symmetry
                                /\ p[1].lengths = iso.lengths
                                /\ p[2] = <<c.minTwoTheta, c.maxTwoTheta>>
       /\ c.wavelength = DefaultWavelength
    THEN (CHOOSE p \in PeakTable : /\ p[1].symmetry = iso.symmetry
                                   /\ p[1].lengths = iso.lengths
                                   /\ p[2] = <<c.minTwoTheta, c.maxTwoTheta>>)[3]
    ELSE calculatePeakLocations(iso.symmetry, iso.lengths, c.wavelength,
                                c.minTwoTheta, c.maxTwoTheta)

\* variant: calculatePeakLocations without the clearing of the old peaks
defineStructureKeepingPeaks(c, iso) ==
    initializeRefinementParameters(
        [ c EXCEPT !.structureDefined = TRUE,
                   !.reflections = SortPeaks(c.reflections \o PeakLocations(c, iso)),
                   !.originalLengths = iso.lengths,
                   !.originalAngles = iso.angles ], iso)

\* CalculatedPattern::defineStructure
defineStructure(c, iso) ==
    initializeRefinementParameters(
        [ c EXCEPT !.structureDefined = TRUE,
                   !.reflections = PeakLocations(c, iso),
                   !.originalLengths = iso.lengths,
                   !.originalAngles = iso.angles ], iso)

\* CalculatedPattern::defineReferencePattern
defineReferencePattern(c, iso, r) ==
    LET d == [ c EXCEPT !.method = r.method, !.wavelength = r.wavelength,
                        !.minTwoTheta = r.minTwoTheta, !.maxTwoTheta = r.maxTwoTheta ]
    IN  IF d.structureDefined THEN [ d EXCEPT !.reflections = PeakLocations(d, iso) ]
        ELSE d

(***************************************************************************)
(* Peak intensities: CalculatedPattern::calculatePeakIntensities,          *)
(* CalculatedPeak::updatePeakPosition / updateCalculatedIntensity          *)
(***************************************************************************)
\* cos and sin of 2 pi k / 4
CosQuarter(k) == <<1, 0, -1, 0>>[(k % 4) + 1]

SinQuarter(k) == <<0, 1, 0, -1>>[(k % 4) + 1]

Dot(u, v) == u[1] * v[1] + u[2] * v[2] + u[3] * v[3]

\* atomicScatteringFactor * thermalFactor of an orbit, in fixed point: a
\* positive weight that decreases with the B factor
ScatteringThermal(b) == IF b < 20 THEN 2 ELSE 1

\* CalculatedPeak::getLPFactor in fixed point: positive, decreasing with the
\* angle over the window
getLPFactor(tt) == IF tt >= 12000 THEN 1 ELSE 1 + (12000 - tt) \div 3000

\* the atoms of an orbit: the images of its representative under the orbit's
\* generators (rotations, no translation), moved into the cell
OrbitAtoms(iso, i) ==
    LET ops == Operations(iso.symmetry)
        gen == iso.generators[i]
    IN  [ j \in 1..Len(gen) |->
            LET v == MatVec(ops[gen[j]], iso.positions[i])
            IN  << v[1] % 4, v[2] % 4, v[3] % 4 >> ]

\* CalculatedPeak::structureFactorSquared
structureFactorSquared(iso, hkl, BFactors) ==
    LET n  == Len(iso.positions)
        re == SeqSum([ i \in 1..n |->
                 ScatteringThermal(BFactors[i])
                   * SeqSum([ j \in 1..Len(iso.generators[i]) |->
                                CosQuarter(Dot(hkl, OrbitAtoms(iso, i)[j])) ]) ])
        im == SeqSum([ i \in 1..n |->
                 ScatteringThermal(BFactors[i])
                   * SeqSum([ j \in 1..Len(iso.generators[i]) |->
                                SinQuarter(Dot(hkl, OrbitAtoms(iso, i)[j])) ]) ])
    IN  re * re + im * im

\* CalculatedPeak::updatePeakPosition
updatePeakPosition(peak, iso, wavelength) ==
    [ peak EXCEPT !.twoTheta = getDiffractionAngle(iso.lengths, peak.hkl, wavelength) ]

\* CalculatedPeak::updateCalculatedIntensity (texturing factor 1)
updateCalculatedIntensity(peak, iso, BFactors) ==
    [ peak EXCEPT !.intensity =
        structureFactorSquared(iso, peak.hkl, BFactors)
          * getLPFactor(peak.twoTheta) * peak.multiplicity ]

\* CalculatedPattern::calculatePeakIntensities
calculatePeakIntensities(c, iso) ==
    [ c EXCEPT !.reflections =
        [ i \in 1..Len(c.reflections) |->
            updateCalculatedIntensity(
                IF "RF_BASIS" \in c.currentlyRefining
                THEN updatePeakPosition(c.reflections[i], iso, c.wavelength)
                ELSE c.reflections[i],
                iso, c.BFactors) ] ]

(***************************************************************************)
(* Matching: CalculatedPattern::matchPeaksToReference and                  *)
(* Diffraction::matchPeaksToReference.  Peak numbers and pattern indices   *)
(* are the zero-based numbers of the code.                                 *)
(***************************************************************************)
\* what a read of referencePeaks[i] past the end of the vector may yield
StrayAngles == {0, 5742}

\* the angle read as referencePeaks[thisPeak].getAngle()
FirstReferenceAngle(refPeaks, thisPeak, stray) ==
    IF thisPeak < Len(refPeaks) THEN refPeaks[thisPeak + 1].twoTheta ELSE stray[thisPeak]

\* the scan "for (refPeak = 1; ...)": the pair <<nearIndex, nearDif>>
RECURSIVE NearestScan(_, _, _, _, _)
NearestScan(angle, refPeaks, refPeak, nearIndex, nearDif) ==
    IF refPeak >= Len(refPeaks) THEN <<nearIndex, nearDif>>
    ELSE LET curDif == Abs(angle - refPeaks[refPeak + 1].twoTheta)
         IN  IF curDif < nearDif
             THEN NearestScan(angle, refPeaks, refPeak + 1, refPeak, curDif)
             ELSE NearestScan(angle, refPeaks, refPeak + 1, nearIndex, nearDif)

\* nearIndex and nearDif of one peak of this pattern
NearestReference(angle, refPeaks, thisPeak, stray) ==
    NearestScan(angle, refPeaks, 1, 0,
                Abs(angle - FirstReferenceAngle(refPeaks, thisPeak, stray)))

\* the loop over thisPeaks: the buckets and the unmatched list
RECURSIVE MatchLoop(_, _, _, _, _, _)
MatchLoop(thisPeaks, refPeaks, thisPeak, stray, matching, unmatched) ==
    IF thisPeak >= Len(thisPeaks)
    THEN [matchingPeaks |-> matching, unmatchedPeaks |-> unmatched]
    ELSE LET near == NearestReference(thisPeaks[thisPeak + 1].twoTheta, refPeaks, thisPeak, stray)
         IN  IF near[2] > MatchTol
             THEN MatchLoop(thisPeaks, refPeaks, thisPeak + 1, stray, matching,
                            Append(unmatched, thisPeak))
             ELSE MatchLoop(thisPeaks, refPeaks, thisPeak + 1, stray,
                            [ matching EXCEPT ![near[1] + 1] = Append(@, thisPeak) ],
                            unmatched)

\* Diffraction::matchPeaksToReference : the pattern indices are written to the
\* copy returned by getDiffractedPeaks(), not to the stored reflections
DiffractionMatchPeaksToReference(c, refPeaks, stray) ==
    LET m == MatchLoop(c.reflections, refPeaks, 0, stray,
                       [ i \in 1..Len(refPeaks) |-> << >> ], << >>)
    IN  [ c EXCEPT !.matchingPeaks = m.matchingPeaks,
                   !.unmatchedPeaks = m.unmatchedPeaks ]

\* CalculatedPattern::matchPeaksToReference
matchPeaksToReference(c, refPeaks, stray) ==
    DiffractionMatchPeaksToReference(
        [ c EXCEPT !.reflections =
            [ i \in 1..Len(c.reflections) |->
                [ c.reflections[i] EXCEPT !.patternIndex = i - 1 ] ] ],
        refPeaks, stray)

(***************************************************************************)
(* Refinement parameters: getRefinementParameters, the two boundary        *)
(* functions, setAccordingToParameters, and the optimizer run              *)
(***************************************************************************)
\* the value the identifier _U has in getRefinementParameters (CalculatedPattern
\* declares U, V, W; _U is the upper-case flag of <ctype.h>), in tenths
CtypeUpperFlag == 10

Repeat(n, v) == [ i \in 1..n |-> v ]

\* the values of 'part' if 'kind' is being refined, nothing otherwise
IfRefining(c, kind, part) == IF kind \in c.currentlyRefining THEN part ELSE << >>

\* CalculatedPattern::getRefinementParameters
getRefinementParameters(c, iso) ==
    IfRefining(c, "RF_SCALE", << c.optimalScale >>)
      \o IfRefining(c, "RF_SPECDISP", << c.shiftParameters[5] >>)
      \o IfRefining(c, "RF_BACKGROUND", c.backgroundParameters)
      \o IfRefining(c, "RF_BASIS", iso.lengths \o iso.angles)
      \o IfRefining(c, "RF_UVFACTORS", << CtypeUpperFlag, c.V, c.eta1, c.eta2 >>)
      \o IfRefining(c, "RF_WFACTOR", << c.W, c.eta0 >>)
      \o IfRefining(c, "RF_POSITIONS",
             [ i \in 1..(3 * Len(iso.positions)) |->
                 iso.positions[((i - 1) \div 3) + 1][((i - 1) % 3) + 1] ])
      \o IfRefining(c, "RF_BFACTORS", c.BFactors)
      \o IfRefining(c, "RF_TEXTURE", c.preferredOrientation)
      \o IfRefining(c, "RF_ZEROSHIFT", << c.shiftParameters[6] >>)

\* data[i] * (1 - _maxLatChange), rounded into the box
LatticeLower(data, maxLatChange) ==
    [ i \in 1..3 |-> (data[i] * (100 - maxLatChange) + 99) \div 100 ]

\* data[i] * (1 + _maxLatChange), rounded into the box
LatticeUpper(data, maxLatChange) ==
    [ i \in 1..3 |-> (data[i] * (100 + maxLatChange)) \div 100 ]

\* CalculatedPattern::getRefinementParameterLowerBoundary
getRefinementParameterLowerBoundary(c, iso) ==
    IfRefining(c, "RF_SCALE", << 0 >>)
      \o IfRefining(c, "RF_SPECDISP", << -10 >>)
      \o IfRefining(c, "RF_BACKGROUND", Repeat(Len(c.backgroundParameters), -Unbounded))
      \o IfRefining(c, "RF_BASIS", LatticeLower(c.originalLengths, c.maxLatChange)
                                     \o LatticeLower(c.originalAngles, c.maxLatChange))
      \o IfRefining(c, "RF_UVFACTORS", Repeat(4, -Unbounded))
      \o IfRefining(c, "RF_WFACTOR", << 0, 0 >>)
      \o IfRefining(c, "RF_POSITIONS", Repeat(3 * Len(iso.positions), -4))
      \o IfRefining(c, "RF_BFACTORS", Repeat(Len(c.BFactors), c.minBFactor))
      \o IfRefining(c, "RF_TEXTURE", Repeat(3, -10))
      \o IfRefining(c, "RF_ZEROSHIFT", << -10 >>)

\* variant: the upper boundary of W is pushed for eta0 as well
UpperBoundaryWidthTwice(c, iso) ==
    IfRefining(c, "RF_SCALE", << Unbounded >>)
      \o IfRefining(c, "RF_SPECDISP", << 10 >>)
      \o IfRefining(c, "RF_BACKGROUND", Repeat(Len(c.backgroundParameters), Unbounded))
      \o IfRefining(c, "RF_BASIS", LatticeUpper(c.originalLengths, c.maxLatChange)
                                     \o LatticeUpper(c.originalAngles, c.maxLatChange))
      \o IfRefining(c, "RF_UVFACTORS", Repeat(4, Unbounded))
      \o IfRefining(c, "RF_WFACTOR", << 200, 200 >>)
      \o IfRefining(c, "RF_POSITIONS", Repeat(3 * Len(iso.positions), 8))
      \o IfRefining(c, "RF_BFACTORS", Repeat(Len(c.BFactors), c.maxBFactor))
      \o IfRefining(c, "RF_TEXTURE", Repeat(3, 10))
      \o IfRefining(c, "RF_ZEROSHIFT", << 10 >>)

\* CalculatedPattern::getRefinementParameterUpperBoundary
getRefinementParameterUpperBoundary(c, iso) ==
    IfRefining(c, "RF_SCALE", << Unbounded >>)
      \o IfRefining(c, "RF_SPECDISP", << 10 >>)
      \o IfRefining(c, "RF_BACKGROUND", Repeat(Len(c.backgroundParameters), Unbounded))
      \o IfRefining(c, "RF_BASIS", LatticeUpper(c.originalLengths, c.maxLatChange)
                                     \o LatticeUpper(c.originalAngles, c.maxLatChange))
      \o IfRefining(c, "RF_UVFACTORS", Repeat(4, Unbounded))
      \o IfRefining(c, "RF_WFACTOR", << 200, 10 >>)
      \o IfRefining(c, "RF_POSITIONS", Repeat(3 * Len(iso.positions), 8))
      \o IfRefining(c, "RF_BFACTORS", Repeat(Len(c.BFactors), c.maxBFactor))
      \o IfRefining(c, "RF_TEXTURE", Repeat(3, 10))
      \o IfRefining(c, "RF_ZEROSHIFT", << 10 >>)

\* CalculatedPattern::setBasis
setBasis(iso, newParams) ==
    LET refined == RefineBasis(iso.symmetry,
                       [ lengths |-> << newParams[1], newParams[2], newParams[3] >>,
                         angles  |-> << newParams[4], newParams[5], newParams[6] >> ])
    IN  [ iso EXCEPT !.lengths = refined.lengths, !.angles = refined.angles ]

\* CalculatedPattern::symPositions (special positions with no translation)
symPositions(iso, positions) ==
    [ i \in 1..Len(positions) |-> MatVec(iso.special[i], positions[i]) ]

\* CalculatedPattern::setPositions : the representative of each orbit is the
\* image under the orbit's first generator, moved into the cell
setPositions(iso, positions) ==
    [ iso EXCEPT !.positions =
        [ i \in 1..Len(positions) |->
            LET v == MatVec(Operations(iso.symmetry)[iso.generators[i][1]], positions[i])
            IN  << v[1] % 4, v[2] % 4, v[3] % 4 >> ] ]

\* the number of values setAccordingToParameters consumes for a kind
Consumed(c, iso, kind) ==
    IF kind \notin c.currentlyRefining THEN 0
    ELSE CASE kind = "RF_SCALE"      -> 1
           [] kind = "RF_SPECDISP"   -> 1
           [] kind = "RF_BACKGROUND" -> Len(c.backgroundParameters)
           [] kind = "RF_BASIS"      -> 6
           [] kind = "RF_UVFACTORS"  -> 4
           [] kind = "RF_WFACTOR"    -> 2
           [] kind = "RF_POSITIONS"  -> 3 * Len(iso.positions)
           [] kind = "RF_BFACTORS"   -> Len(c.BFactors)
           [] kind = "RF_TEXTURE"    -> 3
           [] kind = "RF_ZEROSHIFT"  -> 1

\* the order in which setAccordingToParameters reads the kinds
UnpackOrder ==
    << "RF_SCALE", "RF_SPECDISP", "RF_BACKGROUND", "RF_BASIS", "RF_UVFACTORS",
       "RF_WFACTOR", "RF_POSITIONS", "RF_BFACTORS", "RF_TEXTURE", "RF_ZEROSHIFT" >>

\* the value of 'position' when setAccordingToParameters reaches a kind
PositionAt(c, iso, kind) ==
    LET k == CHOOSE j \in 1..Len(UnpackOrder) : UnpackOrder[j] = kind
    IN  SeqSum([ j \in 1..(k - 1) |-> Consumed(c, iso, UnpackOrder[j]) ])

\* CalculatedPattern::setAccordingToParameters : the pattern and the structure
setAccordingToParameters(c, iso, params) ==
    LET on(kind)    == kind \in c.currentlyRefining
        at(kind, i) == params[PositionAt(c, iso, kind) + i]
        newPositions == [ i \in 1..Len(iso.positions) |->
                            << at("RF_POSITIONS", 3 * (i - 1) + 1),
                               at("RF_POSITIONS", 3 * (i - 1) + 2),
                               at("RF_POSITIONS", 3 * (i - 1) + 3) >> ]
        iso1 == IF on("RF_BASIS")
                THEN setBasis(iso, [ i \in 1..6 |-> at("RF_BASIS", i) ]) ELSE iso
        iso2 == IF on("RF_POSITIONS")
                THEN setPositions(iso1, symPositions(iso1, newPositions)) ELSE iso1
    IN  [ iso  |-> iso2,
          calc |-> [ c EXCEPT
            !.optimalScale = IF on("RF_SCALE") THEN at("RF_SCALE", 1) ELSE @,
            !.shiftParameters =
                [ i \in 1..6 |->
                    IF i = 5 /\ on("RF_SPECDISP") THEN at("RF_SPECDISP", 1)
                    ELSE IF i = 6 /\ on("RF_ZEROSHIFT") THEN at("RF_ZEROSHIFT", 1)
                    ELSE c.shiftParameters[i] ],
            !.backgroundParameters =
                IF on("RF_BACKGROUND")
                THEN [ i \in 1..Len(c.backgroundParameters) |-> at("RF_BACKGROUND", i) ]
                ELSE @,
            !.U    = IF on("RF_UVFACTORS") THEN at("RF_UVFACTORS", 1) ELSE @,
            !.V    = IF on("RF_UVFACTORS") THEN at("RF_UVFACTORS", 2) ELSE @,
            !.eta1 = IF on("RF_UVFACTORS") THEN at("RF_UVFACTORS", 3) ELSE @,
            !.eta2 = IF on("RF_UVFACTORS") THEN at("RF_UVFACTORS", 4) ELSE @,
            !.W    = IF on("RF_WFACTOR") THEN at("RF_WFACTOR", 1) ELSE @,
            !.eta0 = IF on("RF_WFACTOR") THEN at("RF_WFACTOR", 2) ELSE @,
            !.BFactors =
                IF on("RF_BFACTORS")
                THEN [ i \in 1..Len(c.BFactors) |-> at("RF_BFACTORS", i) ] ELSE @,
            !.preferredOrientation =
                IF on("RF_TEXTURE") THEN [ i \in 1..3 |-> at("RF_TEXTURE", i) ] ELSE @ ] ]

\* the points dlib::find_min_box_constrained is taken to return: a corner of
\* the box, alternating between the lower and the upper boundary
OptimizerChoices == { "lohi", "hilo" }

find_min_box_constrained(choice, params, x_low, x_high) ==
    [ i \in 1..Len(params) |->
        IF (i % 2 = 1) <=> (choice = "lohi") THEN x_low[i] ELSE x_high[i] ]

\* CalculatedPattern::runRefinement up to calculatePeakIntensities()
runRefinement(c, iso, choice) ==
    LET params == find_min_box_constrained(choice, getRefinementParameters(c, iso),
                      getRefinementParameterLowerBoundary(c, iso),
                      getRefinementParameterUpperBoundary(c, iso))
        s      == setAccordingToParameters(c, iso, params)
    IN  [ iso |-> s.iso, calc |-> calculatePeakIntensities(s.calc, s.iso) ]

(***************************************************************************)
(* Diffraction::getCurrentRFactor with DR_ABS.  Scales are in thousandths, *)
(* R factors in hundredths.                                                *)
(***************************************************************************)
\* total intensity of the peaks of this pattern filed under each reference peak
MatchedIntensity(c) ==
    [ i \in 1..Len(c.matchingPeaks) |->
        SeqSum([ j \in 1..Len(c.matchingPeaks[i]) |->
                   c.reflections[c.matchingPeaks[i][j] + 1].intensity ]) ]

UnmatchedIntensity(c) ==
    [ i \in 1..Len(c.unmatchedPeaks) |-> c.reflections[c.unmatchedPeaks[i] + 1].intensity ]

\* curError of the scan for one candidate scale, times 1000
AbsError(curScale, referenceIntensity, matchedIntensity, unmatchedIntensity) ==
    SeqSum([ j \in 1..Len(matchedIntensity) |->
               Abs(1000 * referenceIntensity[j] - curScale * matchedIntensity[j]) ])
      + SeqSum([ j \in 1..Len(unmatchedIntensity) |-> Abs(curScale * unmatchedIntensity[j]) ])

\* Part #3 for DR_ABS: the scan keeps the first candidate of least error, and
\* 1.0 when no reference peak has matched intensity
RECURSIVE ScaleScan(_, _, _, _, _, _)
ScaleScan(i, referenceIntensity, matchedIntensity, unmatchedIntensity, best, minimumError) ==
    IF i > Len(matchedIntensity) THEN best
    ELSE IF matchedIntensity[i] = 0
         THEN ScaleScan(i + 1, referenceIntensity, matchedIntensity, unmatchedIntensity,
                        best, minimumError)
         ELSE LET curScale == (1000 * referenceIntensity[i]) \div matchedIntensity[i]
                  curError == AbsError(curScale, referenceIntensity, matchedIntensity,
                                       unmatchedIntensity)
              IN  IF minimumError = -1 \/ curError < minimumError
                  THEN ScaleScan(i + 1, referenceIntensity, matchedIntensity,
                                 unmatchedIntensity, curScale, curError)
                  ELSE ScaleScan(i + 1, referenceIntensity, matchedIntensity,
                                 unmatchedIntensity, best, minimumError)

\* Diffraction::getCurrentRFactor(reference, DR_ABS): quits when nothing was
\* matched or the reference has no peaks; stores the optimal scale
getCurrentRFactor(c, r) ==
    LET referenceIntensity == [ i \in 1..Len(r.diffractionPeaks) |->
                                  r.diffractionPeaks[i].intensity ]
        matched   == MatchedIntensity(c)
        unmatched == UnmatchedIntensity(c)
        norm      == SeqSum(referenceIntensity)
        scale     == ScaleScan(1, referenceIntensity, matched, unmatched, 1000, -1)
        error     == AbsError(scale, referenceIntensity, matched, unmatched)
    IN  IF Len(c.matchingPeaks) = 0 \/ ExpGetDiffractedPeaks(r).quit
        THEN [ quit |-> TRUE, calc |-> c, rFactor |-> 0 ]
        ELSE [ quit |-> FALSE,
               calc |-> [ c EXCEPT !.optimalScale = scale ],
               rFactor |-> IF norm = 0 THEN 0 ELSE error \div (10 * norm) ]

(***************************************************************************)
(* Starting guesses of the Rietveld stages                                 *)
(***************************************************************************)
\* the values scaleGuess can take: the ratio of the tallest measured
\* intensity to the tallest point of the calculated profile, in thousandths
ScaleGuesses == { 1, 1000 }

\* the values getRietveldRFactor(reference, DR_ABS) can take, in hundredths
RietveldRFactors == { 50, 95 }

\* CalculatedPattern::guessBackgroundParameters for a reference whose last
\* angle lies beyond the last reflection by more than a hundredth of the
\* pattern width: the points kept for the fit are those further than that
\* from every reflection before them
guessBackgroundParameters(c, points) ==
    LET n            == Len(c.reflections)
        patternWidth == c.reflections[n].twoTheta - c.reflections[1].twoTheta
        fit == { i \in 1..Len(points) :
                   \A p \in 1..n :
                      \/ 100 * points[i][1] < 100 * c.reflections[p].twoTheta - patternWidth
                      \/ 100 * points[i][1] >= 100 * c.reflections[p].twoTheta + patternWidth }
        mean == SeqSum([ i \in 1..Len(points) |-> IF i \in fit THEN points[i][2] ELSE 0 ])
                  \div Max2(1, Cardinality(fit))
    IN  IF Cardinality(fit) < c.numBackground * 100
        THEN Repeat(c.numBackground, 0)
        ELSE [ i \in 1..c.numBackground |->
                 IF i = 2 /\ c.optimalScale > 0 THEN (1000 * mean) \div c.optimalScale ELSE 0 ]

\* the crossing loop of guessPeakWidthParameter: the widths of the stretches
\* above half the maximum, from position pos on
RECURSIVE HalfMaxWidths(_, _, _, _, _, _)
HalfMaxWidths(points, top, pos, isAbove, startAngle, widths) ==
    IF pos > Len(points) THEN widths
    ELSE IF isAbove
         THEN IF 2 * points[pos][2] < top
              THEN HalfMaxWidths(points, top, pos + 1, FALSE, startAngle,
                                 Append(widths, points[pos][1] - startAngle))
              ELSE HalfMaxWidths(points, top, pos + 1, TRUE, startAngle, widths)
         ELSE IF 2 * points[pos][2] > top
              THEN HalfMaxWidths(points, top, pos + 1, TRUE, points[pos][1], widths)
              ELSE HalfMaxWidths(points, top, pos + 1, FALSE, startAngle, widths)

\* CalculatedPattern::guessPeakWidthParameter, in tenths of a degree, for a
\* reference with a point at or below half its maximum; "NaN" when the
\* pattern never falls back below half the maximum
guessPeakWidthParameter(points) ==
    LET top    == SeqMax([ i \in 1..Len(points) |-> points[i][2] ])
        first  == CHOOSE i \in 1..Len(points) :
                     /\ 2 * points[i][2] <= top
                     /\ \A j \in 1..(i - 1) : 2 * points[j][2] > top
        widths == HalfMaxWidths(points, top, first, FALSE, 0, << >>)
        mean   == SeqSum(widths) \div (10 * Len(widths))
    IN  IF Len(widths) = 0 THEN "NaN"
        ELSE IF SeqSum(widths) > 100 * Len(widths) THEN 10 ELSE mean

(***************************************************************************)
(* State.  A driver reads a reference pattern and the options then makes  *)
(* one call of set() or refine() with a structure of its own; each         *)
(* optimizer run of a refinement is one step.                              *)
(***************************************************************************)
VARIABLES
    iso,     \* the structure handed to the current (or last) call
    calc,    \* the CalculatedPattern object
    ref,     \* the ExperimentalPattern object used as reference
    pc,      \* "idle" before the call, then where the call stands, "done" after it
    call,    \* the arguments and locals of the current (or last) call
    runs     \* history: stage and active set of each optimizer run of the call

vars == << iso, calc, ref, pc, call, runs >>

\* Diffraction::Diffraction() for the experimental pattern
ExpConstructed ==
    [ type |-> "PT_NONE", method |-> "DM_NONE",
      wavelength |-> DefaultWavelength, resolution |-> DefaultResolution,
      minTwoTheta |-> DefaultMinTwoTheta, maxTwoTheta |-> DefaultMaxTwoTheta,
      optimalScale |-> 1000,
      matchingPeaks |-> << >>, unmatchedPeaks |-> << >>,
      continuous |-> << >>, diffractionPeaks |-> << >>,
      importFailed |-> FALSE, fits |-> << >> ]

\* the refinable quantities of the pattern and of the structure
RefinementState(c, s) ==
    [ optimalScale |-> c.optimalScale, shiftParameters |-> c.shiftParameters,
      backgroundParameters |-> c.backgroundParameters,
      U |-> c.U, V |-> c.V, W |-> c.W, eta0 |-> c.eta0, eta1 |-> c.eta1, eta2 |-> c.eta2,
      BFactors |-> c.BFactors, preferredOrientation |-> c.preferredOrientation,
      lengths |-> s.lengths, angles |-> s.angles, positions |-> s.positions ]

\* the record of a call that has not made any step yet
NewCall(op, withRef, rietveld, toRefine, s) ==
    [ op |-> op, withRef |-> withRef, rietveld |-> rietveld, toRefine |-> toRefine,
      refinedSoFar |-> {}, curR |-> 0, rFactor |-> 0,
      isoBefore |-> s, matchCount |-> 0, runsAtMatch |-> 0,
      tripped |-> FALSE, widthState |-> << >>,
      before |-> [ reflections |-> << >>, optimalScale |-> 0 ],
      text |-> << >>,
      written |-> [ wavelength |-> 0, optimalScale |-> 0, peaks |-> << >> ],
      rated |-> << >>, alpha |-> 1,
      printedR |-> -1, rose |-> FALSE,
      grid |-> << >>, signal |-> << >> ]

Init ==
    /\ iso = CHOOSE s \in StructInputs : s.symmetry = "P222"
    /\ calc = CalcConstructed
    /\ ref = ExpConstructed
    /\ pc = "idle"
    /\ call = NewCall("none", FALSE, FALSE, {}, iso)
    /\ runs = << >>

(***************************************************************************)
(* Reading the reference and the options                                   *)
(***************************************************************************)
\* the fit outcomes of the references used for refinement
MainFits(minTT, maxTT) ==
    UNION { [1..k -> { [location |-> minTT, intensity |-> 7] }] : k \in 0..MaxRawPeaks }

\* ExperimentalPattern::set(twoTheta, intensity)
ExpSet(names, allFits) ==
    /\ ref.type = "PT_NONE"
    /\ \E name \in names :
          LET t == SortedInput(name)
          IN  IF AlreadyProcessed(t)
              THEN ref' = ExpSetProcessed(ExpClear(ref), t)
              ELSE \E fits \in (IF allFits THEN FitSequences(t[1][1], t[Len(t)][1])
                                 ELSE MainFits(t[1][1], t[Len(t)][1])) :
                      ref' = ExpSetRaw(ExpClear(ref), t, fits)
    /\ UNCHANGED << iso, calc, pc, call, runs >>

\* the driver reads a reference for refinement
Import == pc = "idle" /\ ExpSet(MainInputs, FALSE)

\* the driver reads any of the data sets
ImportAny == pc = "idle" /\ ExpSet(ExpInputNames, TRUE)

\* the values handed to setMaxLatticeChange, in percent
MaxLatChanges == { -5, 0, 5 }

\* CalculatedPattern::setMaxLatticeChange
SetMaxLatticeChange ==
    /\ pc = "idle"
    /\ \E input \in MaxLatChanges : calc' = [ calc EXCEPT !.maxLatChange = input ]
    /\ UNCHANGED << iso, ref, pc, call, runs >>

(***************************************************************************)
(* CalculatedPattern::set and CalculatedPattern::refine up to the first    *)
(* optimizer run                                                           *)
(***************************************************************************)
\* where refineParameters goes after the step 'done'
IntegratedNext(toRefine, done) ==
    IF done = "start" /\ "RF_POSITIONS" \in toRefine THEN "i_pos"
    ELSE IF done # "i_bf" /\ "RF_BFACTORS" \in toRefine THEN "i_bf"
    ELSE "i_end"

\* rietveldRefinement from its entry to the first runRefinement
BeginRietveld(c, s, newCall) ==
    LET c1 == calculatePeakIntensities([ c EXCEPT !.currentlyRefining = {} ], s)
    IN  /\ calc' = c1
        /\ call' = newCall
        /\ pc' = IF ExpGetMeasurement(ref).quit THEN "quit" ELSE "r_scale"

\* matchPeaksToReference and refineParameters up to the first runRefinement
BeginIntegrated(c, s, newCall) ==
    IF ExpGetDiffractedPeaks(ref).quit
    THEN /\ calc' = c
         /\ call' = newCall
         /\ pc' = "quit"
    ELSE \E angle \in StrayAngles :
            LET stray == [ k \in 0..Len(c.reflections) |-> angle ]
                c1    == matchPeaksToReference(c, ref.diffractionPeaks, stray)
            IN  /\ calc' = [ c1 EXCEPT !.currentlyRefining = {} ]
                /\ call' = [ newCall EXCEPT !.matchCount = 1, !.runsAtMatch = 0 ]
                /\ pc' = IntegratedNext(newCall.toRefine, "start")

\* the last lines of set without a reference: the optimal scale makes the
\* tallest reflection 1000
scaleToTallest(c) ==
    LET maxIntensity == Max2(0, SeqMax([ i \in 1..Len(c.reflections) |->
                                           c.reflections[i].intensity ]))
    IN  [ c EXCEPT !.optimalScale =
            IF maxIntensity = 0 THEN Unbounded ELSE 1000000 \div maxIntensity ]

\* the body of set(iso, symmetry) without a reference: the pattern it leaves
SetWithoutReference(c, s) ==
    scaleToTallest(calculatePeakIntensities(
        defineStructure(CalcClear([ c EXCEPT !.type = "PT_CALCULATED" ]), s), s))

\* set(iso, symmetry) without a reference, on a new pattern or on one that a
\* call of refine has used
Compute ==
    /\ pc = "idle" \/ (pc = "done" /\ call.op = "refine")
    /\ \E s \in StructInputs :
          /\ iso' = s
          /\ calc' = SetWithoutReference(calc, s)
          /\ call' = NewCall("set", FALSE, FALSE, {}, s)
    /\ pc' = "done"
    /\ runs' = << >>
    /\ UNCHANGED ref

\* set(iso, symmetry) once more with the structure of the call before
ComputeAgain ==
    /\ pc = "done" /\ call.op = "set" /\ ~call.withRef
    /\ calc' = SetWithoutReference(calc, iso)
    /\ call' = [ call EXCEPT !.before = [ reflections |-> calc.reflections,
                                          optimalScale |-> calc.optimalScale ] ]
    /\ pc' = "again"
    /\ UNCHANGED << iso, ref, runs >>

\* set(iso, symmetry, ref, rietveld, fitBfactors)
SetWithReference ==
    /\ pc = "idle"
    /\ \E s \in StructInputs, rietveld \in BOOLEAN, fitBfactors \in BOOLEAN :
          LET c1 == defineReferencePattern(
                        defineStructure(
                            CalcClear([ calc EXCEPT !.type = "PT_CALCULATED" ]), s),
                        s, ref)
              toRefine == IF fitBfactors THEN { "RF_BFACTORS" } ELSE {}
              newCall  == NewCall("set", TRUE, rietveld, toRefine, s)
          IN  /\ iso' = s
              /\ IF rietveld THEN BeginRietveld(c1, s, newCall)
                             ELSE BeginIntegrated(c1, s, newCall)
    /\ runs' = << >>
    /\ UNCHANGED ref

\* refine(iso, symmetry, reference, rietveld)
Refine ==
    /\ pc = "idle"
    /\ \E s \in StructInputs, rietveld \in BOOLEAN :
          LET c1 == defineStructure(defineReferencePattern(CalcClear(calc), s, ref), s)
              newCall == NewCall("refine", TRUE, rietveld, { "RF_BFACTORS", "RF_POSITIONS" }, s)
          IN  /\ iso' = s
              /\ IF rietveld THEN BeginRietveld(c1, s, newCall)
                             ELSE BeginIntegrated(c1, s, newCall)
    /\ runs' = << >>
    /\ UNCHANGED ref

(***************************************************************************)
(* CalculatedPattern::refineParameters and the end of an integrated call   *)
(***************************************************************************)
\* variant: the run refines 'kind' alone
IntegratedRunAlone(kind) ==
    \E choice \in OptimizerChoices :
       LET c1  == [ calc EXCEPT !.currentlyRefining = { kind } ]
           res == runRefinement(c1, iso, choice)
           got == getCurrentRFactor(res.calc, ref)
       IN  /\ iso' = res.iso
           /\ calc' = got.calc
           /\ runs' = Append(runs, [ stage |-> pc, active |-> c1.currentlyRefining ])
           /\ call' = [ call EXCEPT !.curR = got.rFactor ]
           /\ pc' = IF got.quit THEN "quit" ELSE IntegratedNext(call.toRefine, pc)
           /\ UNCHANGED ref

\* one runRefinement(reference, false) with 'kind' added to the active set
IntegratedRun(kind) ==
    \E choice \in OptimizerChoices :
       LET c1  == [ calc EXCEPT !.currentlyRefining = @ \cup { kind } ]
           res == runRefinement(c1, iso, choice)
           got == getCurrentRFactor(res.calc, ref)
       IN  /\ iso' = res.iso
           /\ calc' = got.calc
           /\ runs' = Append(runs, [ stage |-> pc, active |-> c1.currentlyRefining ])
           /\ call' = [ call EXCEPT !.curR = got.rFactor ]
           /\ pc' = IF got.quit THEN "quit" ELSE IntegratedNext(call.toRefine, pc)
           /\ UNCHANGED ref

IntPositions == pc = "i_pos" /\ IntegratedRun("RF_POSITIONS")

IntBFactors == pc = "i_bf" /\ IntegratedRun("RF_BFACTORS")

\* rFactor = getCurrentRFactor(reference, DR_ABS) and the return
FinishIntegrated ==
    /\ pc = "i_end"
    /\ LET got == getCurrentRFactor(calc, ref)
       IN  /\ calc' = got.calc
           /\ call' = [ call EXCEPT !.rFactor = got.rFactor ]
           /\ pc' = IF got.quit THEN "quit" ELSE "done"
    /\ UNCHANGED << iso, ref, runs >>

(***************************************************************************)
(* CalculatedPattern::rietveldRefinement, one step per runRefinement       *)
(***************************************************************************)
\* Output::print(curR, 4) once a stage is over, that is after every run but
\* the first of the two runs of the specimen displacement, background and
\* width stages: printedR is the R factor printed last (-1: none yet) and
\* rose tells whether some printed R factor exceeded the one printed before it
PrintCurR(cl, stage, r) ==
    IF stage \in { "r_spec1", "r_bg1", "r_w1" } THEN cl
    ELSE [ cl EXCEPT !.printedR = r,
                     !.rose = @ \/ (cl.printedR # -1 /\ r > cl.printedR) ]

\* runRefinement(&referencePattern, true) on the pattern c1 whose active set
\* has been prepared; 'after' is inserted into the active set once the run is
\* over, and curR takes the R factor r
RietveldRun(c1, refinedSoFar, after, r, nextpc) ==
    \E choice \in OptimizerChoices :
       LET res == runRefinement(c1, iso, choice)
       IN  /\ iso' = res.iso
           /\ calc' = [ res.calc EXCEPT !.currentlyRefining = @ \cup after ]
           /\ runs' = Append(runs, [ stage |-> pc, active |-> c1.currentlyRefining ])
           /\ call' = PrintCurR([ call EXCEPT !.curR = r, !.refinedSoFar = refinedSoFar ],
                                 pc, r)
           /\ pc' = nextpc
           /\ UNCHANGED ref

\* "Refine the scale factor"
StageScale ==
    /\ pc = "r_scale"
    /\ \E scaleGuess \in ScaleGuesses, r \in RietveldRFactors :
          RietveldRun([ calc EXCEPT !.currentlyRefining = @ \cup { "RF_SCALE" },
                                    !.optimalScale = scaleGuess ],
                      call.refinedSoFar \cup { "RF_SCALE" }, {}, r, "r_spec1")

\* variant: the width joins the specimen displacement
StageSpecDispWithWidth ==
    /\ pc = "r_spec1"
    /\ \E r \in RietveldRFactors :
          RietveldRun([ calc EXCEPT !.currentlyRefining = { "RF_SPECDISP", "RF_WFACTOR" } ],
                      call.refinedSoFar \cup { "RF_SPECDISP" }, {}, r, "r_spec2")

\* "Refine specimen displacement": alone
StageSpecDispAlone ==
    /\ pc = "r_spec1"
    /\ \E r \in RietveldRFactors :
          RietveldRun([ calc EXCEPT !.currentlyRefining = { "RF_SPECDISP" } ],
                      call.refinedSoFar \cup { "RF_SPECDISP" }, {}, r, "r_spec2")

\* "Refine specimen displacement": with everything refined so far
StageSpecDispJoint ==
    /\ pc = "r_spec2"
    /\ \E r \in RietveldRFactors :
          RietveldRun([ calc EXCEPT !.currentlyRefining = @ \cup call.refinedSoFar ],
                      call.refinedSoFar, {}, r, "r_bg1")

\* "Refine the background": background and scale
StageBackgroundAlone ==
    /\ pc = "r_bg1"
    /\ \E r \in RietveldRFactors :
          RietveldRun([ calc EXCEPT
                          !.currentlyRefining = { "RF_BACKGROUND", "RF_SCALE" },
                          !.backgroundParameters =
                              guessBackgroundParameters(calc, ref.continuous) ],
                      call.refinedSoFar \cup { "RF_BACKGROUND" }, {}, r, "r_bg2")

\* variant: the lattice stage follows whatever max_lat_change is
StageBackgroundJointThenBasis ==
    /\ pc = "r_bg2"
    /\ \E r \in RietveldRFactors :
          RietveldRun([ calc EXCEPT !.currentlyRefining = @ \cup call.refinedSoFar ],
                      call.refinedSoFar, {}, r, "r_basis")

\* "Refine the background": with everything refined so far
StageBackgroundJoint ==
    /\ pc = "r_bg2"
    /\ \E r \in RietveldRFactors :
          RietveldRun([ calc EXCEPT !.currentlyRefining = @ \cup call.refinedSoFar ],
                      call.refinedSoFar, {}, r,
                      IF calc.maxLatChange > 0 THEN "r_basis" ELSE "r_w1")

\* "Refine lattice parameters, if desired"
StageBasis ==
    /\ pc = "r_basis"
    /\ \E r \in RietveldRFactors :
          RietveldRun([ calc EXCEPT !.currentlyRefining = { "RF_BASIS" } ],
                      call.refinedSoFar \cup { "RF_BASIS" },
                      calc.currentlyRefining, r, "r_w1")

\* "Refine the peak broadening (W)": first run
StageWidthFirst ==
    /\ pc = "r_w1"
    /\ \E r \in RietveldRFactors :
          RietveldRun([ calc EXCEPT !.W = guessPeakWidthParameter(ref.continuous),
                                    !.currentlyRefining = @ \cup { "RF_WFACTOR" } ],
                      call.refinedSoFar \cup { "RF_WFACTOR" }, {}, r, "r_w2")

\* variant: no test of curR after the second width run
StageWidthSecondUntested ==
    /\ pc = "r_w2"
    /\ \E r \in RietveldRFactors, choice \in OptimizerChoices :
          LET c1  == [ calc EXCEPT !.currentlyRefining = @ \cup call.refinedSoFar ]
              res == runRefinement(c1, iso, choice)
          IN  /\ iso' = res.iso
              /\ calc' = res.calc
              /\ runs' = Append(runs, [ stage |-> pc, active |-> c1.currentlyRefining ])
              /\ call' = PrintCurR([ call EXCEPT
                                        !.curR = r, !.tripped = (r > DivergenceR),
                                        !.widthState = RefinementState(res.calc, res.iso) ],
                                    pc, r)
              /\ pc' = IF "RF_POSITIONS" \in call.toRefine THEN "r_pos" ELSE "r_tex"
    /\ UNCHANGED ref

\* "Refine the peak broadening (W)": second run, then the test of curR
StageWidthSecond ==
    /\ pc = "r_w2"
    /\ \E r \in RietveldRFactors, choice \in OptimizerChoices :
          LET c1  == [ calc EXCEPT !.currentlyRefining = @ \cup call.refinedSoFar ]
              res == runRefinement(c1, iso, choice)
          IN  /\ iso' = res.iso
              /\ calc' = res.calc
              /\ runs' = Append(runs, [ stage |-> pc, active |-> c1.currentlyRefining ])
              /\ call' = PrintCurR([ call EXCEPT
                                        !.curR = r, !.tripped = (r > DivergenceR),
                                        !.widthState = RefinementState(res.calc, res.iso) ],
                                    pc, r)
              /\ pc' = IF r > DivergenceR THEN "r_end"
                       ELSE IF "RF_POSITIONS" \in call.toRefine THEN "r_pos"
                       ELSE "r_tex"
    /\ UNCHANGED ref

\* variant: a later stage refines its kind alone
LaterStageAlone(kind, nextpc) ==
    \E r \in RietveldRFactors :
       RietveldRun([ calc EXCEPT !.currentlyRefining = { kind } ],
                   call.refinedSoFar, {}, r, nextpc)

\* a later stage: 'kind' joins the active set and everything is refined
LaterStage(kind, nextpc) ==
    \E r \in RietveldRFactors :
       RietveldRun([ calc EXCEPT !.currentlyRefining = @ \cup { kind } ],
                   call.refinedSoFar, {}, r, nextpc)

\* "Refine atomic positions, if desired"
StagePositions == pc = "r_pos" /\ LaterStage("RF_POSITIONS", "r_tex")

\* "Refine preferred orientation factor"
StageTexture ==
    /\ pc = "r_tex"
    /\ LaterStage("RF_TEXTURE", IF "RF_BFACTORS" \in call.toRefine THEN "r_bf" ELSE "r_uv")

\* "Refine B factors, if desired"
StageBFactors == pc = "r_bf" /\ LaterStage("RF_BFACTORS", "r_uv")

\* "Refine everything else": U, V, eta1, eta2
StageUVFactors == pc = "r_uv" /\ LaterStage("RF_UVFACTORS", "r_zero")

\* "Refine everything else": the zero shift
StageZeroShift == pc = "r_zero" /\ LaterStage("RF_ZEROSHIFT", "r_end")

\* the return of rietveldRefinement and the rest of set() / refine(): the R
\* factor, and for set() the copy of the measurement angles
FinishRietveld ==
    /\ pc = "r_end"
    /\ \E r \in RietveldRFactors :
          /\ call' = [ call EXCEPT !.rFactor = r ]
          /\ calc' = IF call.op = "set"
                     THEN [ calc EXCEPT !.measurementAngles =
                              [ i \in 1..Len(ref.continuous) |-> ref.continuous[i][1] ] ]
                     ELSE calc
    /\ pc' = "done"
    /\ UNCHANGED << iso, ref, runs >>

\* clear() on the calculated pattern once a call has returned
Clear ==
    /\ pc = "done"
    /\ calc' = CalcClear(calc)
    /\ call' = NewCall("clear", FALSE, FALSE, {}, iso)
    /\ runs' = << >>
    /\ pc' = "cleared"
    /\ UNCHANGED << iso, ref >>

Next ==
    \/ Import \/ SetMaxLatticeChange
    \/ Compute \/ SetWithReference \/ Refine
    \/ IntPositions \/ IntBFactors \/ FinishIntegrated
    \/ StageScale \/ StageSpecDispAlone \/ StageSpecDispJoint
    \/ StageBackgroundAlone \/ StageBackgroundJoint \/ StageBasis
    \/ StageWidthFirst \/ StageWidthSecond
    \/ StagePositions \/ StageTexture \/ StageBFactors
    \/ StageUVFactors \/ StageZeroShift \/ FinishRietveld
    \/ Clear \/ ComputeAgain

Spec == Init /\ [][Next]_vars

\* the import of experimental data alone, over every input and fit outcome
NextExp == ImportAny

SpecExp == Init /\ [][NextExp]_vars

(***************************************************************************)
(* The text format: Diffraction::print to a file and                       *)
(* ExperimentalPattern::set(text)                                          *)
(***************************************************************************)
\* a word of a line that is not a number
TextWord(letters) ==
    [ number |-> FALSE, letters |-> letters,
      negative |-> FALSE, whole |-> 0, hundredths |-> 0 ]

\* a number as the output stream writes it: sign, whole part, decimals
NumberWord(v) ==
    [ number |-> TRUE, letters |-> "",
      negative |-> v < 0, whole |-> Abs(v) \div 100, hundredths |-> Abs(v) % 100 ]

\* Language::isNumber
isNumber(word) == word.number

\* atof of a word that is a number, in hundredths
atof(word) ==
    (IF word.negative THEN -1 ELSE 1) * (100 * word.whole + word.hundredths)

\* Word::equal("wavelength", false, 4): the case is ignored and the first
\* four letters suffice
EqualWavelength(word) ==
    /\ ~word.number
    /\ word.letters \in { "wavelength", "Wavelength", "WAVELENGTH", "wave", "Wave" }

\* the peaks that print writes: "if (intensity * _optimalScale < 1) continue"
PrintedPeaks(r) ==
    SelectSeq(r.diffractionPeaks, LAMBDA p : ~(p.intensity * r.optimalScale < 1000))

\* the line of one peak as stored, without the scale
UnscaledPeakLine(r, p) ==
    << NumberWord(p.twoTheta), NumberWord(100 * p.intensity) >>

\* message.add(angle, 10); message.add(intensity * _optimalScale, 10)
PeakLine(r, p) ==
    << NumberWord(p.twoTheta), NumberWord((p.intensity * r.optimalScale) \div 10) >>

\* Diffraction::print(file, false) for a file: the settings, then the peaks
PrintedText(r, peaks) ==
    << << TextWord("Wavelength"), NumberWord(r.wavelength) >>,
       << TextWord("Resolution"), NumberWord(r.resolution) >> >>
      \o [ i \in 1..Len(peaks) |-> PeakLine(r, peaks[i]) ]

\* the loop over the lines in set(text): the lines taken as data
DataLines(text) ==
    SelectSeq(text, LAMBDA line : /\ Len(line) >= 2
                                  /\ ~EqualWavelength(line[1])
                                  /\ isNumber(line[1]) /\ isNumber(line[2]))

\* rawTwoTheta and rawIntensity, as pairs in the order of the lines
RecognizedRecords(lines) ==
    [ i \in 1..Len(lines) |-> << atof(lines[i][1]), atof(lines[i][2]) \div 100 >> ]

\* the lines that set the wavelength
WavelengthLines(text) ==
    SelectSeq(text, LAMBDA line : Len(line) >= 2 /\ EqualWavelength(line[1]))

\* a wavelength line whose value is not a number: Output::quit()
BadWavelength(lines) == \E i \in 1..Len(lines) : ~isNumber(lines[i][2])

\* the pattern after the loop of set(text): clear(), then the last wavelength
AfterLines(r, lines) ==
    [ ExpClear(r) EXCEPT !.wavelength =
        IF lines = << >> THEN @ ELSE atof(lines[Len(lines)][2]) ]

\* the values setWavelength and setOptimalScale are called with
WavelengthInputs == { DefaultWavelength, 71 }

ScaleInputs == { 1000, 2000 }

\* Diffraction::setWavelength on the experimental pattern
SetWavelength ==
    /\ pc = "idle" /\ ref.type # "PT_NONE"
    /\ \E input \in WavelengthInputs : ref' = [ ref EXCEPT !.wavelength = input ]
    /\ UNCHANGED << iso, calc, pc, call, runs >>

\* Diffraction::setOptimalScale on the experimental pattern
SetOptimalScale ==
    /\ pc = "idle" /\ ref.type # "PT_NONE"
    /\ \E input \in ScaleInputs : ref' = [ ref EXCEPT !.optimalScale = input ]
    /\ UNCHANGED << iso, calc, pc, call, runs >>

\* print(file): getDiffractedPeaks ends the program when no peak is stored,
\* after the settings were written
PrintToFile ==
    /\ pc = "idle" /\ ref.type # "PT_NONE"
    /\ call' = [ NewCall("print", FALSE, FALSE, {}, iso) EXCEPT
                   !.text = IF ExpGetDiffractedPeaks(ref).quit
                            THEN PrintedText(ref, << >>)
                            ELSE PrintedText(ref, PrintedPeaks(ref)),
                   !.written = [ wavelength |-> ref.wavelength,
                                 optimalScale |-> ref.optimalScale,
                                 peaks |-> ref.diffractionPeaks ] ]
    /\ pc' = IF ExpGetDiffractedPeaks(ref).quit THEN "quit" ELSE "printed"
    /\ UNCHANGED << iso, calc, ref, runs >>

\* set(rawTwoTheta, rawIntensity) on no data: the branch of processed data
\* reads _diffractionPeaks[0] and back() of an empty vector, which either
\* yields stray angles or ends the program
ExpSetEmpty(r) ==
    /\ \E first \in StrayAngles, last \in StrayAngles, crash \in BOOLEAN :
          /\ ref' = [ r EXCEPT !.type = "PT_EXP_INT",
                               !.minTwoTheta = IF crash THEN @ ELSE first - r.resolution,
                               !.maxTwoTheta = IF crash THEN @ ELSE last + r.resolution \div 2 ]
          /\ pc' = IF crash THEN "quit" ELSE "read"

\* set(rawTwoTheta, rawIntensity) on the records of the file
ExpSetRecords(r, t) ==
    IF t = << >> THEN ExpSetEmpty(r)
    ELSE /\ pc' = "read"
         /\ IF AlreadyProcessed(t)
            THEN ref' = ExpSetProcessed(ExpClear(r), t)
            ELSE \E fits \in FitSequences(t[1][1], t[Len(t)][1]) :
                    ref' = ExpSetRaw(ExpClear(r), t, fits)

\* a new ExperimentalPattern reads the file with set(text)
ReadText ==
    /\ pc = "printed"
    /\ IF BadWavelength(WavelengthLines(call.text))
       THEN pc' = "quit" /\ ref' = ExpClear(ExpConstructed)
       ELSE ExpSetRecords(AfterLines(ExpConstructed, WavelengthLines(call.text)),
                          SortPairs(RecognizedRecords(DataLines(call.text))))
    /\ call' = [ call EXCEPT !.op = "read" ]
    /\ UNCHANGED << iso, calc, runs >>

NextText == ImportAny \/ SetWavelength \/ SetOptimalScale \/ PrintToFile \/ ReadText

SpecText == Init /\ [][NextText]_vars

(***************************************************************************)
(* Diffraction::getCurrentRFactor on integrated intensities, in exact      *)
(* arithmetic: a double is a fraction in lowest terms with a positive      *)
(* denominator, and the result of a division by zero has denominator 0     *)
(***************************************************************************)
RECURSIVE GCD(_, _)
GCD(a, b) == IF b = 0 THEN a ELSE GCD(b, a % b)

\* the quotient n / d
Fraction(n, d) ==
    IF d = 0 THEN [ num |-> IF n = 0 THEN 0 ELSE 1, den |-> 0 ]
    ELSE [ num |-> ((IF d < 0 THEN -1 ELSE 1) * n) \div GCD(Abs(n), Abs(d)),
           den |-> Abs(d) \div GCD(Abs(n), Abs(d)) ]

\* std::inner_product(a.begin(), a.end(), b.begin(), 0.0)
InnerProduct(a, b) == SeqSum([ i \in 1..Len(a) |-> a[i] * b[i] ])

\* Part #1: referenceIntensity
ReferenceIntensity(r) ==
    [ i \in 1..Len(r.diffractionPeaks) |-> r.diffractionPeaks[i].intensity ]

\* curError of the DR_ABS scan for the candidate of reference peak i, times
\* matchedIntensity[i]
AbsErrorAt(i, refI, m, u) ==
    SeqSum([ j \in 1..Len(m) |-> Abs(m[i] * refI[j] - refI[i] * m[j]) ])
      + SeqSum([ j \in 1..Len(u) |-> Abs(refI[i] * u[j]) ])

\* variant: a later candidate of equal error replaces the kept one
RECURSIVE AbsScanLastWins(_, _, _, _, _)
AbsScanLastWins(i, refI, m, u, best) ==
    IF i > Len(m) THEN best
    ELSE IF m[i] = 0 THEN AbsScanLastWins(i + 1, refI, m, u, best)
    ELSE IF best = 0 THEN AbsScanLastWins(i + 1, refI, m, u, i)
    ELSE IF AbsErrorAt(i, refI, m, u) * Abs(m[best])
               <= AbsErrorAt(best, refI, m, u) * Abs(m[i])
         THEN AbsScanLastWins(i + 1, refI, m, u, i)
         ELSE AbsScanLastWins(i + 1, refI, m, u, best)

\* Part #3 for DR_ABS: the reference peak whose candidate scale is kept, 0
\* when every matched intensity is zero
RECURSIVE AbsScan(_, _, _, _, _)
AbsScan(i, refI, m, u, best) ==
    IF i > Len(m) THEN best
    ELSE IF m[i] = 0 THEN AbsScan(i + 1, refI, m, u, best)
    ELSE IF best = 0 THEN AbsScan(i + 1, refI, m, u, i)
    ELSE IF AbsErrorAt(i, refI, m, u) * Abs(m[best])
               < AbsErrorAt(best, refI, m, u) * Abs(m[i])
         THEN AbsScan(i + 1, refI, m, u, i)
         ELSE AbsScan(i + 1, refI, m, u, best)

\* the scale of the kept candidate, 1.0 when there is none
AbsScaleOf(best, refI, m) ==
    IF best = 0 THEN Fraction(1, 1) ELSE Fraction(refI[best], m[best])

\* Part #3: the value stored in _optimalScale
ExactScale(method, refI, m, u) ==
    IF method = "DR_SQUARED"
    THEN Fraction(InnerProduct(m, refI), InnerProduct(m, m) + InnerProduct(u, u))
    ELSE AbsScaleOf(AbsScan(1, refI, m, u, 0), refI, m)

\* variant: the squared error of the matched peaks alone
ExactRFactorMatchedOnly(method, s, refI, m, u) ==
    IF s.den = 0 THEN Fraction(0, 0)
    ELSE IF method = "DR_SQUARED"
    THEN Fraction(SeqSum([ i \in 1..Len(m) |->
                             (s.den * refI[i] - s.num * m[i]) * (s.den * refI[i] - s.num * m[i]) ]),
                  s.den * s.den * InnerProduct(refI, refI))
    ELSE Fraction(SeqSum([ i \in 1..Len(m) |-> Abs(s.den * refI[i] - s.num * m[i]) ])
                    + SeqSum([ j \in 1..Len(u) |-> Abs(s.num * u[j]) ]),
                  s.den * SeqSum(refI))

\* Parts #2 and #5: the error with the optimal scale s, over the norm
ExactRFactor(method, s, refI, m, u) ==
    IF s.den = 0 THEN Fraction(0, 0)
    ELSE IF method = "DR_SQUARED"
    THEN Fraction(SeqSum([ i \in 1..Len(m) |->
                             (s.den * refI[i] - s.num * m[i]) * (s.den * refI[i] - s.num * m[i]) ])
                    + SeqSum([ j \in 1..Len(u) |-> (s.num * u[j]) * (s.num * u[j]) ]),
                  s.den * s.den * InnerProduct(refI, refI))
    ELSE Fraction(SeqSum([ i \in 1..Len(m) |-> Abs(s.den * refI[i] - s.num * m[i]) ])
                    + SeqSum([ j \in 1..Len(u) |-> Abs(s.num * u[j]) ]),
                  s.den * SeqSum(refI))

\* the scale stored and the value returned by getCurrentRFactor(r, method)
Rating(method, s, refI, m, u) ==
    [ method |-> method, scale |-> s, rFactor |-> ExactRFactor(method, s, refI, m, u) ]

\* the integrated intensities of the reference peaks and of the reflections
RefIntensities == { 1, 2 }

CalcIntensities == { 0, 1, 2 }

\* the factors by which the reference is rescaled
Alphas == { 2, 3 }

\* the angles of the three reference peaks, and of three reflections set out
\* against them
ReferenceAngles == << 3000, 4500, 7000 >>

CalcAngles == { << 3000, 4495, 4505 >>, << 3000, 3010, 4500 >>, << 2000, 6000, 8000 >> }

\* a calculated pattern holding three reflections, matched to the reference r
RatedPattern(angles, calcI, r) ==
    matchPeaksToReference(
        [ CalcConstructed EXCEPT
            !.type = "PT_CALCULATED", !.structureDefined = TRUE,
            !.reflections =
               [ i \in 1..3 |->
                   [ hkl |-> << i, 0, 0 >>, equivHKL |-> << << i, 0, 0 >> >>,
                     multiplicity |-> 1, twoTheta |-> angles[i],
                     intensity |-> calcI[i], patternIndex |-> -1 ] ] ],
        r.diffractionPeaks, [ k \in 0..3 |-> 0 ])

\* the reference with the given intensities, read by set(twoTheta, intensity)
RatedReference(refI) ==
    ExpSetProcessed(ExpClear(ExpConstructed),
                    [ i \in 1..3 |-> << ReferenceAngles[i], refI[i] >> ])

InitRating ==
    /\ iso = CHOOSE s \in StructInputs : s.symmetry = "P222"
    /\ \E refI \in [1..3 -> RefIntensities] : ref = RatedReference(refI)
    /\ \E angles \in CalcAngles, calcI \in [1..3 -> CalcIntensities] :
          calc = RatedPattern(angles, calcI, ref)
    /\ pc = "idle"
    /\ call = NewCall("none", FALSE, FALSE, {}, iso)
    /\ runs = << >>

\* getCurrentRFactor(reference, method), first with either method and after
\* the reference was rescaled with the same method again
GetCurrentRFactor ==
    /\ pc \in { "idle", "scaled" }
    /\ \E method \in { "DR_ABS", "DR_SQUARED" } :
          /\ pc = "scaled" => method = call.rated[1].method
          /\ call' = [ call EXCEPT !.op = "rfactor",
                          !.rated = Append(@,
                             Rating(method,
                                    ExactScale(method, ReferenceIntensity(ref),
                                               MatchedIntensity(calc), UnmatchedIntensity(calc)),
                                    ReferenceIntensity(ref),
                                    MatchedIntensity(calc), UnmatchedIntensity(calc))) ]
    /\ calc' = [ calc EXCEPT !.optimalScale =
                   IF call'.rated[Len(call'.rated)].scale.den = 0 THEN Unbounded
                   ELSE (1000 * call'.rated[Len(call'.rated)].scale.num)
                          \div call'.rated[Len(call'.rated)].scale.den ]
    /\ pc' = IF pc = "idle" THEN "rated" ELSE "rerated"
    /\ UNCHANGED << iso, ref, runs >>

\* the reference is read again with every intensity multiplied by alpha; the
\* matching of the calculated pattern stays as it is
ScaleReference ==
    /\ pc = "rated"
    /\ \E alpha \in Alphas :
          /\ ref' = RatedReference([ i \in 1..3 |-> alpha * ref.diffractionPeaks[i].intensity ])
          /\ call' = [ call EXCEPT !.alpha = alpha ]
    /\ pc' = "scaled"
    /\ UNCHANGED << iso, calc, runs >>

NextRating == GetCurrentRFactor \/ ScaleReference

SpecRating == InitRating /\ [][NextRating]_vars

(***************************************************************************)
(* Profile synthesizer: CalculatedPattern::generatePeakSignal.  Angles are *)
(* in hundredths of a degree; the patterns it is run on have U = V = 0 and *)
(* no shift but the zero shift, so that H * H = W and shift =               *)
(* _shiftParameters[5].  The signal records, for each grid angle, which    *)
(* reflections added their pseudo-Voigt term there, not the amount.        *)
(***************************************************************************)
\* H * H of a reflection, in squared hundredths of a degree (W is in tenths
\* of a squared degree)
HSquared(c) == 1000 * c.W

\* center += shift
ShiftedCenter(c, p) == c.reflections[p].twoTheta + c.shiftParameters[6]

\* angle < center - 6.0 * H
BelowMinAngle(angle, center, hh) ==
    angle < center /\ (center - angle) * (center - angle) > 36 * hh

\* angle < center + 6.0 * H
BelowMaxAngle(angle, center, hh) ==
    angle <= center \/ (angle - center) * (angle - center) < 36 * hh

\* lower_bound(twoTheta.begin(), twoTheta.end(), minAngle) - twoTheta.begin()
LowerBound(twoTheta, center, hh) ==
    Cardinality({ i \in 1..Len(twoTheta) : BelowMinAngle(twoTheta[i], center, hh) })

\* "while (twoTheta[++a] < minAngle) continue;" from a = the lower bound: a
\* is raised once before the first comparison; -1 when that reads past the
\* end of twoTheta
RECURSIVE SkipToMinAngle(_, _, _, _)
SkipToMinAngle(twoTheta, a, center, hh) ==
    IF a + 1 >= Len(twoTheta) THEN -1
    ELSE IF BelowMinAngle(twoTheta[a + 2], center, hh)
         THEN SkipToMinAngle(twoTheta, a + 1, center, hh)
         ELSE a + 1

\* variant: the comparison comes before the increment
RECURSIVE AdvanceToMinAngle(_, _, _, _)
AdvanceToMinAngle(twoTheta, a, center, hh) ==
    IF a >= Len(twoTheta) THEN -1
    ELSE IF BelowMinAngle(twoTheta[a + 1], center, hh)
         THEN AdvanceToMinAngle(twoTheta, a + 1, center, hh)
         ELSE a

\* "while (twoTheta[a] < maxAngle && a < twoTheta.size())": reflection p is
\* added to output[a]
RECURSIVE AddPeak(_, _, _, _, _, _)
AddPeak(twoTheta, a, center, hh, p, output) ==
    IF a >= Len(twoTheta) \/ ~BelowMaxAngle(twoTheta[a + 1], center, hh) THEN output
    ELSE AddPeak(twoTheta, a + 1, center, hh, p,
                 [ output EXCEPT ![a + 1] = @ \cup { p } ])

\* the loop over the reflections from reflection p on.  A read past the end
\* of twoTheta in the skipping loop gives, as pastEnd says, a value that
\* stops the loop ("stops") or a fault ("faults")
RECURSIVE PeakSignalFrom(_, _, _, _, _)
PeakSignalFrom(c, twoTheta, p, pastEnd, output) ==
    IF p > Len(c.reflections) THEN [ faulted |-> FALSE, output |-> output ]
    ELSE IF ~ ( \/ ShiftedCenter(c, p) < c.maxTwoTheta
                \/ (ShiftedCenter(c, p) - c.maxTwoTheta)
                     * (ShiftedCenter(c, p) - c.maxTwoTheta) < 36 * HSquared(c) )
         THEN PeakSignalFrom(c, twoTheta, p + 1, pastEnd, output)
    ELSE IF SkipToMinAngle(twoTheta,
                           LowerBound(twoTheta, ShiftedCenter(c, p), HSquared(c)),
                           ShiftedCenter(c, p), HSquared(c)) = -1
         THEN IF pastEnd = "faults" THEN [ faulted |-> TRUE, output |-> output ]
              ELSE PeakSignalFrom(c, twoTheta, p + 1, pastEnd, output)
    ELSE PeakSignalFrom(c, twoTheta, p + 1, pastEnd,
             AddPeak(twoTheta,
                     SkipToMinAngle(twoTheta,
                                    LowerBound(twoTheta, ShiftedCenter(c, p), HSquared(c)),
                                    ShiftedCenter(c, p), HSquared(c)),
                     ShiftedCenter(c, p), HSquared(c), p, output))

\* CalculatedPattern::generatePeakSignal
generatePeakSignal(c, twoTheta, pastEnd) ==
    PeakSignalFrom(c, twoTheta, 1, pastEnd, [ a \in 1..Len(twoTheta) |-> {} ])

\* the grids of angles the signal is generated on
SignalGrids ==
    { << 2000, 2200, 2400, 2600, 2800, 3000 >>,
      << 2000, 2072, 2400, 2728, 3000, 3600 >>,
      << 2400, 3000 >> }

\* the angles of the reflections, one or two to a pattern
SignalCenters == { << 2400 >>, << 3000 >>, << 2200, 2400 >>, << 2400, 3600 >>, << 1000, 8000 >> }

\* the values of W: H = 0.5477 and H = 1 degree
SignalWidths == { 3, 10 }

\* the zero shifts
SignalShifts == { 0, 10 }

\* a calculated pattern with reflections at the given angles
SignalPattern(centers, w, shift, maxTwoTheta) ==
    [ CalcConstructed EXCEPT
        !.type = "PT_CALCULATED",
        !.W = w,
        !.shiftParameters = << 0, 0, 0, 0, 0, shift >>,
        !.maxTwoTheta = maxTwoTheta,
        !.reflections =
            [ p \in 1..Len(centers) |->
                [ NewCalculatedPeak(<<160, 160, 160>>, DefaultWavelength,
                                    <<1, 0, 0>>, << <<1, 0, 0>> >>)
                  EXCEPT !.twoTheta = centers[p], !.intensity = 1 ] ] ]

InitSignal ==
    /\ iso = CHOOSE s \in StructInputs : s.symmetry = "P222"
    /\ ref = ExpConstructed
    /\ \E centers \in SignalCenters, w \in SignalWidths, shift \in SignalShifts,
          maxTwoTheta \in { 3000, DefaultMaxTwoTheta } :
          calc = SignalPattern(centers, w, shift, maxTwoTheta)
    /\ \E twoTheta \in SignalGrids :
          call = [ NewCall("none", FALSE, FALSE, {}, iso) EXCEPT !.grid = twoTheta ]
    /\ pc = "idle"
    /\ runs = << >>

\* generatePeakSignal(twoTheta)
GeneratePeakSignal ==
    /\ pc = "idle"
    /\ \E pastEnd \in { "stops", "faults" } :
          /\ call' = [ call EXCEPT !.op = "signal",
                          !.signal = generatePeakSignal(calc, call.grid, pastEnd).output ]
          /\ pc' = IF generatePeakSignal(calc, call.grid, pastEnd).faulted
                   THEN "quit" ELSE "signalled"
    /\ UNCHANGED << iso, calc, ref, runs >>

NextSignal == GeneratePeakSignal

SpecSignal == InitSignal /\ [][NextSignal]_vars

(***************************************************************************)
(* ExperimentalPattern::locatePeaks, part 1: the peak-location scan        *)
(*                                                                         *)
(* The raw pattern is sampled on a uniform grid of 1 degree steps, so that *)
(* h = 2 in getFirstDerivative and h2 = 1 in getSecondDerivative.  The     *)
(* first derivative is kept in halves and both smoothed derivatives in     *)
(* sevenths (smoothData(.., 3, 1.0) weights its seven points by 1/7        *)
(* each), which leaves every sign the scan tests unchanged.  position is   *)
(* the 0-based index of the code; sequences are read at position + 1.      *)
(***************************************************************************)
\* getFirstDerivative(x, y): d starts as zeros, d[0] and d.back() are
\* formed from d itself
getFirstDerivative(y) ==
    [ i \in 1..Len(y) |->
        IF i = 1 THEN 0
        ELSE IF i < Len(y) THEN y[i + 1] - y[i - 1]
        ELSE 0 - (y[Len(y)] - y[Len(y) - 2]) ]

\* getSecondDerivative(x, y): the ends copy their neighbours
SecondDifference(y, i) == y[i + 1] - 2 * y[i] + y[i - 1]

getSecondDerivative(y) ==
    [ i \in 1..Len(y) |->
        IF i = 1 THEN SecondDifference(y, 2)
        ELSE IF i < Len(y) THEN SecondDifference(y, i)
        ELSE SecondDifference(y, Len(y) - 1) ]

\* smoothData(rawTwoTheta, rawIntensity, 3, 1.0): the points from
\* numPerSide to size - numPerSide - 1 become the mean of seven
smoothData(initialInt) ==
    [ i \in 1..Len(initialInt) |->
        IF i >= 4 /\ i <= Len(initialInt) - 3
        THEN SeqSum(SubSeq(initialInt, i - 3, i + 3))
        ELSE 7 * initialInt[i] ]

\* rawIntensity[position] < peakTol, peakTol = 0.01 * maxHeight
BelowPeakTol(rawIntensity, position) ==
    100 * rawIntensity[position + 1] < SeqMax(rawIntensity)

\* while (rawIntensity[position] < peakTol || secondDerivative[position] < 0)
RECURSIVE SkipOffPeak(_, _, _)
SkipOffPeak(rawIntensity, secondDerivative, position) ==
    IF BelowPeakTol(rawIntensity, position) \/ secondDerivative[position + 1] < 0
    THEN IF position + 1 = Len(rawIntensity) THEN position + 1
         ELSE SkipOffPeak(rawIntensity, secondDerivative, position + 1)
    ELSE position

\* while (secondDerivative[position] > 0)
RECURSIVE SkipPeakEdge(_, _)
SkipPeakEdge(secondDerivative, position) ==
    IF secondDerivative[position + 1] > 0
    THEN IF position + 1 = Len(secondDerivative) THEN position + 1
         ELSE SkipPeakEdge(secondDerivative, position + 1)
    ELSE position

\* while (firstDerivative[position] > 0)
RECURSIVE SkipToMaximum(_, _)
SkipToMaximum(firstDerivative, position) ==
    IF firstDerivative[position + 1] > 0
    THEN IF position + 1 = Len(firstDerivative) THEN position + 1
         ELSE SkipToMaximum(firstDerivative, position + 1)
    ELSE position

\* while (secondDerivative[position] < 0)
RECURSIVE SkipToPeakEnd(_, _)
SkipToPeakEnd(secondDerivative, position) ==
    IF secondDerivative[position + 1] < 0
    THEN IF position + 1 = Len(secondDerivative) THEN position + 1
         ELSE SkipToPeakEnd(secondDerivative, position + 1)
    ELSE position

\* the end of one pass of while (position < rawTwoTheta.size()): the centre
\* is recorded, then dropped again when the data ends inside the peak
RecordCentre(s, centre, end) ==
    IF end = Len(s.rawIntensity)
    THEN [ s EXCEPT !.position = end, !.finished = TRUE ]
    ELSE [ s EXCEPT !.position = end,
                    !.peakPosition = Append(s.peakPosition, centre) ]

ClimbToCentre(s, edge) ==
    IF edge = Len(s.rawIntensity)
    THEN [ s EXCEPT !.position = edge, !.finished = TRUE ]
    ELSE IF SkipToMaximum(s.firstDerivative, edge) = Len(s.rawIntensity)
    THEN [ s EXCEPT !.position = Len(s.rawIntensity), !.finished = TRUE ]
    ELSE RecordCentre(s, SkipToMaximum(s.firstDerivative, edge),
             SkipToPeakEnd(s.secondDerivative,
                 SkipToMaximum(s.firstDerivative, edge)))

\* one pass of the body of while (position < rawTwoTheta.size())
ScanPass(s) ==
    IF SkipOffPeak(s.rawIntensity, s.secondDerivative, s.position)
           = Len(s.rawIntensity)
    THEN [ s EXCEPT !.position = Len(s.rawIntensity), !.finished = TRUE ]
    ELSE ClimbToCentre(s,
             SkipPeakEdge(s.secondDerivative,
                 SkipOffPeak(s.rawIntensity, s.secondDerivative, s.position)))

\* the raw patterns handed to locatePeaks
ScanLengths == { 7, 8 }

ScanIntensities == { 0, 1, 2 }

InitLocate ==
    /\ iso = CHOOSE s \in StructInputs : s.symmetry = "P222"
    /\ ref = ExpConstructed
    /\ calc = CalcConstructed
    /\ \E n \in ScanLengths : \E rawIntensity \in [ 1..n -> ScanIntensities ] :
          call = [ op |-> "none", rawIntensity |-> rawIntensity,
                   firstDerivative |-> << >>, secondDerivative |-> << >>,
                   position |-> 0, peakPosition |-> << >>, finished |-> FALSE ]
    /\ pc = "idle"
    /\ runs = << >>

\* locatePeaks up to the start of the scan
LocatePeaks ==
    /\ pc = "idle"
    /\ call' = [ call EXCEPT
                    !.op = "locatePeaks",
                    !.firstDerivative =
                        smoothData(getFirstDerivative(call.rawIntensity)),
                    !.secondDerivative =
                        smoothData(getSecondDerivative(call.rawIntensity)),
                    !.position = 0,
                    !.peakPosition = << >> ]
    /\ pc' = "scanning"
    /\ UNCHANGED << iso, calc, ref, runs >>

\* one pass of the scan; the list of centres is followed until it holds one
\* entry more than the pattern has points
LocateScanPass ==
    /\ pc = "scanning"
    /\ Len(call.peakPosition) <= Len(call.rawIntensity)
    /\ call' = ScanPass(call)
    /\ pc' = IF ScanPass(call).finished THEN "scanned" ELSE "scanning"
    /\ UNCHANGED << iso, calc, ref, runs >>

NextLocate == LocatePeaks \/ LocateScanPass

SpecLocate == InitLocate /\ [][NextLocate]_vars

(***************************************************************************)
(* Properties                                                              *)
(***************************************************************************)
Range(f) == { f[i] : i \in DOMAIN f }

\* Diffraction::isSet
isSet(c) == c.type # "PT_NONE"

\* a call has matched the calculated peaks to the reference
Matched == call.matchCount >= 1

\* the number of reference peaks
NumReferencePeaks == Len(ref.diffractionPeaks)

\* C1: every calculated peak filed in a bucket of the matching table lies no
\* further from that bucket's reference peak than from any other reference peak
C1_BucketIsNearest ==
    Matched =>
      \A b \in 1..Len(calc.matchingPeaks) :
        \A j \in 1..Len(calc.matchingPeaks[b]) :
          LET angle == calc.reflections[calc.matchingPeaks[b][j] + 1].twoTheta
          IN  \A other \in 1..NumReferencePeaks :
                 Abs(angle - ref.diffractionPeaks[b].twoTheta)
                   <= Abs(angle - ref.diffractionPeaks[other].twoTheta)

\* C2: once matched, the pattern index of every stored reflection is -1 or
\* the number of a reference peak, and is -1 exactly for the reflections in
\* the unmatched list
C2_PatternIndexValid ==
    Matched =>
      \A i \in 1..Len(calc.reflections) :
        LET index == calc.reflections[i].patternIndex
        IN  /\ index = -1 \/ (0 <= index /\ index < NumReferencePeaks)
            /\ (index = -1) <=> ((i - 1) \in Range(calc.unmatchedPeaks))

\* C3: when a call of set() has returned, the basis and the coordinates of
\* the caller's structure are what they were when it was called
C3_SetLeavesStructure ==
    (pc = "done" /\ call.op = "set") =>
      /\ iso.lengths = call.isoBefore.lengths
      /\ iso.angles = call.isoBefore.angles
      /\ iso.positions = call.isoBefore.positions

\* the data an imported pattern was given, in sorted order
ImportedData ==
    IF ref.type = "PT_EXP_RAW" THEN ref.continuous
    ELSE [ i \in 1..Len(ref.diffractionPeaks) |->
             << ref.diffractionPeaks[i].twoTheta, ref.diffractionPeaks[i].intensity >> ]

\* some spacing of the data exceeds another by more than a tenth
NonUniform(t) ==
    LET difs == { t[i + 1][1] - t[i][1] : i \in 1..(Len(t) - 1) }
    IN  \E d, e \in difs : 10 * d > 11 * e

\* all the angles of the data are the same
NoSpacing(t) == \A i \in 1..(Len(t) - 1) : t[i + 1][1] = t[i][1]

SomeFitRejected ==
    /\ ref.type = "PT_EXP_RAW"
    /\ \E i \in 1..Len(ref.fits) :
          \/ ref.fits[i].intensity < 0
          \/ ref.fits[i].location < ref.continuous[1][1]
          \/ ref.fits[i].location > ref.continuous[Len(ref.continuous)][1]

\* C5 (as stated): after a rejected fit no peak is stored, the continuous
\* pattern can be read, and asking for the peaks yields an empty list
C5_EmptyListReturned ==
    SomeFitRejected =>
      /\ ref.diffractionPeaks = << >>
      /\ ~ExpGetMeasurement(ref).quit
      /\ ~ExpGetDiffractedPeaks(ref).quit /\ ExpGetDiffractedPeaks(ref).peaks = << >>

\* C5: after a rejected fit no peak is stored, the continuous pattern can be
\* read, and asking for the peaks ends the program with an error
C5_PeaksDiscarded ==
    SomeFitRejected =>
      /\ ref.diffractionPeaks = << >>
      /\ ~ExpGetMeasurement(ref).quit
      /\ Len(ExpGetMeasurement(ref).points) >= 2
      /\ ExpGetDiffractedPeaks(ref).quit

\* an import whose first fit was accepted and whose second was rejected
C5_Witness ==
    /\ SomeFitRejected /\ Len(ref.fits) >= 2
    /\ ref.fits[1].intensity >= 0
    /\ ref.fits[1].location >= ref.continuous[1][1]
    /\ ref.fits[1].location <= ref.continuous[Len(ref.continuous)][1]

\* the kinds rietveldRefinement adds after the test of curR
LateKinds ==
    { "RF_POSITIONS", "RF_TEXTURE", "RF_BFACTORS", "RF_UVFACTORS", "RF_ZEROSHIFT" }

\* C6: when the R factor after the second width run exceeds 0.9, that run is
\* the last one, no later kind is in any active set, the call returns, and
\* the refinable quantities are those the width run left
C6_DivergenceStops ==
    (call.rietveld /\ call.tripped) =>
      /\ pc \in { "r_end", "done" }
      /\ runs[Len(runs)].stage = "r_w2"
      /\ \A n \in 1..Len(runs) : runs[n].active \cap LateKinds = {}
      /\ calc.currentlyRefining \cap LateKinds = {}
      /\ RefinementState(calc, iso) = call.widthState

\* a stopped refinement that has returned
C6_Witness == call.rietveld /\ call.tripped /\ pc = "done" /\ call.curR > DivergenceR

\* the order in which the kinds are to be enabled
StageOrder ==
    << "RF_SCALE", "RF_SPECDISP", "RF_BACKGROUND", "RF_BASIS", "RF_WFACTOR",
       "RF_POSITIONS", "RF_TEXTURE", "RF_BFACTORS", "RF_UVFACTORS", "RF_ZEROSHIFT" >>

\* the kind has been active in some run of the call
Enabled(kind) == \E n \in 1..Len(runs) : kind \in runs[n].active

\* the first run in which the kind was active
FirstRun(kind) ==
    CHOOSE n \in 1..Len(runs) :
       /\ kind \in runs[n].active
       /\ \A m \in 1..(n - 1) : kind \notin runs[m].active

\* the call has no stage for the kind
Skipped(kind) ==
    \/ kind = "RF_BASIS" /\ calc.maxLatChange <= 0
    \/ kind \in { "RF_POSITIONS", "RF_BFACTORS" } /\ kind \notin call.toRefine

\* C7: in a Rietveld refinement a kind is active in a run only after every
\* kind before it in the order, unless skipped, was first active in an
\* earlier run; a skipped kind is never active
C7_StageOrder ==
    call.rietveld =>
      \A k \in 1..Len(StageOrder) :
        /\ Skipped(StageOrder[k]) => ~Enabled(StageOrder[k])
        /\ Enabled(StageOrder[k]) =>
              \A j \in 1..(k - 1) :
                 ~Skipped(StageOrder[j]) =>
                    /\ Enabled(StageOrder[j])
                    /\ FirstRun(StageOrder[j]) < FirstRun(StageOrder[k])

\* a Rietveld refinement that went through all ten stages
C7_Witness ==
    /\ call.rietveld /\ pc = "done"
    /\ \A k \in 1..Len(StageOrder) : Enabled(StageOrder[k])

\* C8: in a Rietveld refinement with max_lat_change <= 0 no run has BASIS
\* active and the basis stays what it was; with max_lat_change > 0 the first
\* run with BASIS active comes after the runs of the background stage and
\* before any run with WFACTOR active
C8_BasisStage ==
    call.rietveld =>
      /\ calc.maxLatChange <= 0 =>
            /\ ~Enabled("RF_BASIS")
            /\ iso.lengths = call.isoBefore.lengths
            /\ iso.angles = call.isoBefore.angles
      /\ calc.maxLatChange > 0 =>
            /\ Enabled("RF_BASIS") =>
                  /\ runs[FirstRun("RF_BASIS")].stage = "r_basis"
                  /\ \E n \in 1..(FirstRun("RF_BASIS") - 1) : runs[n].stage = "r_bg2"
            /\ Enabled("RF_WFACTOR") =>
                  /\ Enabled("RF_BASIS")
                  /\ FirstRun("RF_BASIS") < FirstRun("RF_WFACTOR")

\* a Rietveld refinement with a negative max_lat_change that reached the
\* width stage
C8_Witness ==
    /\ call.rietveld /\ calc.maxLatChange < 0
    /\ Enabled("RF_WFACTOR") /\ pc = "done"

\* the active sets refineParameters is to use, in order
IntegratedPlan(toRefine) ==
    (IF "RF_POSITIONS" \in toRefine THEN << { "RF_POSITIONS" } >> ELSE << >>)
      \o (IF "RF_BFACTORS" \in toRefine
          THEN << toRefine \cap { "RF_POSITIONS", "RF_BFACTORS" } >> ELSE << >>)

\* C9: an integrated refinement matches the peaks once, before any run; its
\* runs use the planned active sets in order, all of them by the time the
\* call returns
C9_IntegratedPlan ==
    (call.withRef /\ ~call.rietveld /\ pc # "quit") =>
      /\ call.matchCount = 1 /\ call.runsAtMatch = 0
      /\ Len(runs) <= Len(IntegratedPlan(call.toRefine))
      /\ \A n \in 1..Len(runs) :
            /\ runs[n].active = IntegratedPlan(call.toRefine)[n]
            /\ runs[n].active \subseteq { "RF_POSITIONS", "RF_BFACTORS" }
      /\ pc = "done" => Len(runs) = Len(IntegratedPlan(call.toRefine))

\* an integrated refinement of positions and B factors that has returned
C9_Witness ==
    /\ call.withRef /\ ~call.rietveld /\ pc = "done"
    /\ Len(runs) = 2 /\ call.matchCount = 1

\* C10: once a structure is defined the reflections are in ascending order
\* of angle
C10_ReflectionsSorted ==
    calc.structureDefined =>
      \A i \in 1..(Len(calc.reflections) - 1) :
         calc.reflections[i].twoTheta <= calc.reflections[i + 1].twoTheta

\* C11: once a structure is defined every reflection lies inside the angular
\* window of the pattern, and so between 0 and the upper end of the window
C11_ReflectionsInWindow ==
    calc.structureDefined =>
      \A i \in 1..Len(calc.reflections) :
         /\ calc.minTwoTheta <= calc.reflections[i].twoTheta
         /\ calc.reflections[i].twoTheta <= calc.maxTwoTheta
         /\ 0 <= calc.reflections[i].twoTheta

\* C12: after an import the measured peaks are in ascending order of angle,
\* whether they were stored as given or produced by fitting a raw pattern
C12_MeasuredPeaksSorted ==
    ref.type # "PT_NONE" =>
      \A i \in 1..(Len(ref.diffractionPeaks) - 1) :
         ref.diffractionPeaks[i].twoTheta <= ref.diffractionPeaks[i + 1].twoTheta

\* the active set of the latest optimizer run of the call
LastActive == runs[Len(runs)].active

\* all the entries of a sequence lie between lo and hi
AllWithin(seq, lo, hi) == \A i \in 1..Len(seq) : lo <= seq[i] /\ seq[i] <= hi

\* C13: after an optimizer run every parameter of its active set is stored
\* inside its bounds: scale >= 0, specimen displacement and zero shift in
\* [-0.1, 0.1], W in [0, 20], eta0 in [0, 1], B factors in [min, max],
\* texture in [-10, 10], fractional coordinates in [-1, 2], lattice lengths
\* and angles within the original value times (1 -/+ the maximum change)
C13_ActiveWithinBounds ==
    Len(runs) >= 1 =>
      /\ "RF_SCALE" \in LastActive => calc.optimalScale >= 0
      /\ "RF_SPECDISP" \in LastActive =>
            -10 <= calc.shiftParameters[5] /\ calc.shiftParameters[5] <= 10
      /\ "RF_ZEROSHIFT" \in LastActive =>
            -10 <= calc.shiftParameters[6] /\ calc.shiftParameters[6] <= 10
      /\ "RF_WFACTOR" \in LastActive =>
            /\ 0 <= calc.W /\ calc.W <= 200
            /\ 0 <= calc.eta0 /\ calc.eta0 <= 10
      /\ "RF_BFACTORS" \in LastActive =>
            AllWithin(calc.BFactors, calc.minBFactor, calc.maxBFactor)
      /\ "RF_TEXTURE" \in LastActive => AllWithin(calc.preferredOrientation, -10, 10)
      /\ "RF_POSITIONS" \in LastActive =>
            \A i \in 1..Len(iso.positions) : AllWithin(iso.positions[i], -4, 8)
      /\ "RF_BASIS" \in LastActive =>
            \A i \in 1..3 :
              /\ calc.originalLengths[i] * (100 - calc.maxLatChange) <= 100 * iso.lengths[i]
              /\ 100 * iso.lengths[i] <= calc.originalLengths[i] * (100 + calc.maxLatChange)
              /\ calc.originalAngles[i] * (100 - calc.maxLatChange) <= 100 * iso.angles[i]
              /\ 100 * iso.angles[i] <= calc.originalAngles[i] * (100 + calc.maxLatChange)

\* a Rietveld refinement has returned after a run with the width, the lattice,
\* the positions, the B factors and the zero shift all active
C13_Witness ==
    /\ pc = "done" /\ Len(runs) >= 1
    /\ { "RF_WFACTOR", "RF_BASIS", "RF_POSITIONS", "RF_BFACTORS", "RF_ZEROSHIFT" }
          \subseteq LastActive

\* C14: after clear() the calculated pattern is in the state of a freshly
\* constructed one (the limits set by the caller, the largest lattice change
\* and the range of the B factors, are left out of the comparison)
C14_ClearRestoresConstructed ==
    pc = "cleared" =>
      [ calc EXCEPT !.maxLatChange = DefaultMaxLatChange ] = CalcConstructed

\* C15: a second compute with the same structure, symmetry and settings
\* leaves the same reflections (hkl, equivalents, angles, multiplicities and
\* intensities, in the same order) and the same optimal scale as the first
C15_ComputeTwiceSame ==
    pc = "again" =>
      /\ calc.reflections = call.before.reflections
      /\ calc.optimalScale = call.before.optimalScale

\* a second compute has returned a pattern with reflections, on a pattern
\* object that a Rietveld refinement of the lattice had used before
C15_Witness ==
    /\ pc = "again" /\ Len(calc.reflections) >= 2
    /\ "RF_BASIS" \in calc.currentlyRefining

\* the (angle, intensity) records of a list of peaks, in the order of the list
PeakRecords(peaks) ==
    [ i \in 1..Len(peaks) |-> << peaks[i].twoTheta, peaks[i].intensity >> ]

\* the peaks of the written pattern whose scaled intensity is at least 1,
\* with the scaled intensity
ScaledRecords(w) ==
    PeakRecords(
        [ i \in 1..Len(w.peaks) |->
            [ w.peaks[i] EXCEPT !.intensity = (@ * w.optimalScale) \div 1000 ] ])

KeptRecords(w) ==
    SelectSeq(ScaledRecords(w), LAMBDA rec : rec[2] >= 1)

SameNumber(a, b) ==
    IF a.den = 0 \/ b.den = 0 THEN a = b
    ELSE a.num * b.den = b.num * a.den

\* C17 (as stated): with the matching fixed, multiplying every reference
\* intensity by alpha leaves the value returned by getCurrentRFactor
\* unchanged, for DR_ABS and for DR_SQUARED, and multiplies the optimal scale
\* it stores by alpha
C17_ScaleInvariance ==
    pc = "rerated" =>
      /\ SameNumber(call.rated[2].rFactor, call.rated[1].rFactor)
      /\ SameNumber(call.rated[2].scale,
                    Fraction(call.alpha * call.rated[1].scale.num, call.rated[1].scale.den))

\* the optimal scale and the value of the first rating
RatedScale == call.rated[1].scale

RatedValue == call.rated[1].rFactor

\* a first rating with DR_SQUARED whose scale is a number
RatedSquared ==
    pc = "rated" /\ call.rated[1].method = "DR_SQUARED" /\ RatedScale.den # 0

\* sum_i (I_ref[i] - s * I_match[i])^2, times the square of the denominator
\* of the scale s
MatchedResidualSquares ==
    SeqSum([ i \in 1..Len(ref.diffractionPeaks) |->
               (RatedScale.den * ReferenceIntensity(ref)[i]
                  - RatedScale.num * MatchedIntensity(calc)[i])
             * (RatedScale.den * ReferenceIntensity(ref)[i]
                  - RatedScale.num * MatchedIntensity(calc)[i]) ])

\* sum_j (s * I_unmatched[j])^2, times the square of the denominator of s
UnmatchedSquares ==
    SeqSum([ j \in 1..Len(calc.unmatchedPeaks) |->
               (RatedScale.num * UnmatchedIntensity(calc)[j])
             * (RatedScale.num * UnmatchedIntensity(calc)[j]) ])

\* sum_i I_ref[i]^2
ReferenceSquares ==
    SeqSum([ i \in 1..Len(ref.diffractionPeaks) |->
               ReferenceIntensity(ref)[i] * ReferenceIntensity(ref)[i] ])

\* s = sum(I_ref * I_match) / (sum(I_match^2) + sum(I_unmatched^2))
ClosedFormScale ==
    RatedScale.num
      * ( SeqSum([ i \in 1..Len(ref.diffractionPeaks) |->
                     MatchedIntensity(calc)[i] * MatchedIntensity(calc)[i] ])
          + SeqSum([ j \in 1..Len(calc.unmatchedPeaks) |->
                     UnmatchedIntensity(calc)[j] * UnmatchedIntensity(calc)[j] ]) )
    = RatedScale.den
      * SeqSum([ i \in 1..Len(ref.diffractionPeaks) |->
                   ReferenceIntensity(ref)[i] * MatchedIntensity(calc)[i] ])

\* C18 (as stated): the DR_SQUARED value returned by getCurrentRFactor is the
\* square root of sum_i (I_ref[i] - s I_match[i])^2 / sum_i I_ref[i]^2 with
\* the closed-form scale s: its square times sum I_ref^2 is the sum of the
\* squared matched residuals
C18_RootOfMatchedResiduals ==
    RatedSquared =>
      /\ ClosedFormScale
      /\ RatedValue.num * RatedValue.num
           = Fraction(MatchedResidualSquares,
                      RatedScale.den * RatedScale.den * ReferenceSquares).num
      /\ RatedValue.den * RatedValue.den
           = Fraction(MatchedResidualSquares,
                      RatedScale.den * RatedScale.den * ReferenceSquares).den

\* C18: when some calculated intensity is not zero, the DR_SQUARED value
\* returned by getCurrentRFactor is, without a square root,
\* (sum_i (I_ref[i] - s I_match[i])^2 + sum_j (s I_unmatched[j])^2)
\* / sum_i I_ref[i]^2 with the closed-form scale s
C18_SquaredResiduals ==
    RatedSquared =>
      /\ ClosedFormScale
      /\ RatedValue.den # 0
      /\ RatedValue.num * RatedScale.den * RatedScale.den * ReferenceSquares
           = RatedValue.den * (MatchedResidualSquares + UnmatchedSquares)

\* a DR_SQUARED rating with matched and unmatched intensity and a residual
C18_Witness ==
    /\ RatedSquared
    /\ RatedScale.num # 0
    /\ UnmatchedSquares # 0
    /\ MatchedResidualSquares # 0

Occurrences(k) ==
    Cardinality({ j \in 1..Len(calc.unmatchedPeaks) : calc.unmatchedPeaks[j] = k })
      + SeqSum([ b \in 1..Len(calc.matchingPeaks) |->
                   Cardinality({ j \in 1..Len(calc.matchingPeaks[b]) :
                                   calc.matchingPeaks[b][j] = k }) ])

\* the distance from the calculated peak of index k to the nearest reference
\* peak exceeds the matching tolerance of 0.15 degrees
FarFromEveryReference(k) ==
    \A r \in 1..NumReferencePeaks :
       Abs(calc.reflections[k + 1].twoTheta - ref.diffractionPeaks[r].twoTheta) > MatchTol

\* C20: after matchPeaksToReference every calculated peak index occurs exactly
\* once across the unmatched list and the buckets, there is one bucket per
\* reference peak, and a peak is unmatched exactly when it is further than
\* 0.15 degrees from the nearest reference peak
C20_MatchPartition ==
    (Matched \/ pc = "rated") =>
      /\ Len(calc.matchingPeaks) = NumReferencePeaks
      /\ \A k \in 0..(Len(calc.reflections) - 1) :
            /\ Occurrences(k) = 1
            /\ (Occurrences(k) = 1 /\ k \in Range(calc.unmatchedPeaks))
                 <=> FarFromEveryReference(k)

\* the kind a stage introduces
StageKind(stage) ==
    CASE stage = "r_scale" -> "RF_SCALE"
      [] stage \in { "r_spec1", "r_spec2" } -> "RF_SPECDISP"
      [] stage \in { "r_bg1", "r_bg2" } -> "RF_BACKGROUND"
      [] stage = "r_basis" -> "RF_BASIS"
      [] stage \in { "r_w1", "r_w2" } -> "RF_WFACTOR"
      [] stage = "r_pos" -> "RF_POSITIONS"
      [] stage = "r_tex" -> "RF_TEXTURE"
      [] stage = "r_bf" -> "RF_BFACTORS"
      [] stage = "r_uv" -> "RF_UVFACTORS"
      [] stage = "r_zero" -> "RF_ZEROSHIFT"

\* the kinds that were active in some run before run n
EarlierKinds(n) == UNION { runs[m].active : m \in 1..(n - 1) }

\* a Rietveld refinement that has returned without stopping after the width
\* stage
RietveldCompleted == call.rietveld /\ pc = "done" /\ ~call.tripped

\* C21 (as stated): every kind a Rietveld stage introduces is first active in
\* a run with only that kind in the active set, and that run or a later one
\* has exactly that kind and the kinds of the earlier stages in the active set
C21_AloneThenJoint ==
    RietveldCompleted =>
      \A k \in 1..Len(StageOrder) :
        Enabled(StageOrder[k]) =>
          /\ runs[FirstRun(StageOrder[k])].active = { StageOrder[k] }
          /\ \E m \in FirstRun(StageOrder[k])..Len(runs) :
                runs[m].active
                  = { StageOrder[k] } \cup EarlierKinds(FirstRun(StageOrder[k]))

\* C21: the active set of every run of a Rietveld refinement is the one of
\* its stage: SCALE alone; SPECDISP alone, then with every earlier kind;
\* BACKGROUND with SCALE, then every kind so far; BASIS alone; WFACTOR with
\* every kind so far, twice; each later kind with every kind so far
C21_StagePlan ==
    call.rietveld =>
      \A n \in 1..Len(runs) :
        runs[n].active =
          CASE runs[n].stage \in { "r_scale", "r_spec1", "r_basis" } ->
                 { StageKind(runs[n].stage) }
            [] runs[n].stage = "r_bg1" -> { "RF_BACKGROUND", "RF_SCALE" }
            [] OTHER -> { StageKind(runs[n].stage) } \cup EarlierKinds(n)

\* a completed Rietveld refinement with all ten kinds
C21_Witness ==
    /\ RietveldCompleted
    /\ Len(runs) = 13
    /\ runs[4].active = { "RF_BACKGROUND", "RF_SCALE" }
    /\ runs[6].active = { "RF_BASIS" }
    /\ "RF_SPECDISP" \in runs[7].active

\* the state lies between two stages of a Rietveld refinement, or after the
\* last one
StageBoundary ==
    /\ call.rietveld
    /\ Len(runs) > 0
    /\ pc \in { "r_spec1", "r_bg1", "r_basis", "r_w1", "r_pos", "r_tex", "r_bf", "r_uv",
                "r_zero", "r_end", "done" }

\* C22: between the stages of a Rietveld refinement and after the last one,
\* every kind that was active in some run is in the active set
C22_EnabledStaysActive ==
    StageBoundary =>
      \A k \in 1..Len(StageOrder) :
        Enabled(StageOrder[k]) => StageOrder[k] \in calc.currentlyRefining

\* the refinement has returned with ten kinds in the active set, after the
\* background stage had run without the specimen displacement and the
\* lattice stage with the basis alone
C22_Witness ==
    /\ StageBoundary /\ pc = "done"
    /\ \A k \in 1..Len(StageOrder) : StageOrder[k] \in calc.currentlyRefining
    /\ \E n \in 1..Len(runs) : runs[n].active = { "RF_BASIS" }

\* the pattern with a single kind in its active set
Only(c, kind) == [ c EXCEPT !.currentlyRefining = { kind } ]

\* the entries of a vector at the offset and of the width that the canonical
\* order gives the kind
SliceOf(vec, kind) ==
    SubSeq(vec, PositionAt(calc, iso, kind) + 1,
           PositionAt(calc, iso, kind) + Consumed(calc, iso, kind))

\* the packed vector and the two boundary vectors have the same length and
\* hold, for each active kind, the entries of that kind at the same place
PackedAlike ==
    /\ Len(getRefinementParameters(calc, iso))
         = SeqSum([ k \in 1..Len(UnpackOrder) |-> Consumed(calc, iso, UnpackOrder[k]) ])
    /\ Len(getRefinementParameterLowerBoundary(calc, iso))
         = Len(getRefinementParameters(calc, iso))
    /\ Len(getRefinementParameterUpperBoundary(calc, iso))
         = Len(getRefinementParameters(calc, iso))
    /\ \A kind \in calc.currentlyRefining :
          /\ SliceOf(getRefinementParameters(calc, iso), kind)
               = getRefinementParameters(Only(calc, kind), iso)
          /\ SliceOf(getRefinementParameterLowerBoundary(calc, iso), kind)
               = getRefinementParameterLowerBoundary(Only(calc, kind), iso)
          /\ SliceOf(getRefinementParameterUpperBoundary(calc, iso), kind)
               = getRefinementParameterUpperBoundary(Only(calc, kind), iso)

\* unpacking the packed vector leaves the pattern and the structure as they are
PackedUnpacked ==
    setAccordingToParameters(calc, iso, getRefinementParameters(calc, iso))
      = [ iso |-> iso, calc |-> calc ]

\* C23: for the active set of every state, the packed vector and the two
\* boundary vectors have the same length and give each active kind the same
\* slice in the canonical order, and unpacking the packed vector writes every
\* value back to the field it was read from
C23_PackUnpack ==
    calc.currentlyRefining # {} => (PackedAlike /\ PackedUnpacked)

\* the images of h under the rotations of the pattern's symmetry
Orbit(h) ==
    { MatVec(Operations(iso.symmetry)[i], h) : i \in 1..Len(Operations(iso.symmetry)) }

\* h is the lexicographically smallest member of its orbit
OrbitSmallest(h) ==
    \A g \in Orbit(h) :
       ~ ( \/ g[1] < h[1]
           \/ g[1] = h[1] /\ g[2] < h[2]
           \/ g[1] = h[1] /\ g[2] = h[2] /\ g[3] < h[3] )

\* the box of hkl enumerated for the cell the peaks were located with
BoxRange(d) == HklRange(calc.originalLengths[d], calc.wavelength, calc.maxTwoTheta)

EnumeratedBox ==
    ((-BoxRange(1))..BoxRange(1)) \X ((-BoxRange(2))..BoxRange(2))
       \X ((-BoxRange(3))..BoxRange(3))

\* 2theta of h, for the cell the peaks were located with, lies in the window
InAngularWindow(h) ==
    /\ getDiffractionAngle(calc.originalLengths, h, calc.wavelength) >= calc.minTwoTheta
    /\ getDiffractionAngle(calc.originalLengths, h, calc.wavelength) <= calc.maxTwoTheta

\* C24: the reflections located for a structure have seeds in different
\* orbits, each seed is the lexicographically smallest member of its orbit,
\* and every orbit whose smallest member lies in the enumerated box and has
\* its 2theta in the window has a reflection
C24_OnePerOrbit ==
    (pc = "done" /\ calc.structureDefined) =>
      /\ \A i, j \in 1..Len(calc.reflections) :
            i # j => calc.reflections[i].hkl \notin Orbit(calc.reflections[j].hkl)
      /\ \A i \in 1..Len(calc.reflections) :
            /\ OrbitSmallest(calc.reflections[i].hkl)
            /\ calc.reflections[i].hkl \in EnumeratedBox
      /\ \A h \in EnumeratedBox :
            (OrbitSmallest(h) /\ InAngularWindow(h)) =>
               \E i \in 1..Len(calc.reflections) : calc.reflections[i].hkl = h

\* peaks were located in a box that holds seeds which are not the smallest
\* of their orbit and smallest seeds outside the window, and one reflection
\* stands for an orbit of several members
C24_Witness ==
    /\ pc = "done" /\ calc.structureDefined
    /\ Len(calc.reflections) >= 2
    /\ \E h \in EnumeratedBox : ~OrbitSmallest(h) /\ InAngularWindow(h)
    /\ \E h \in EnumeratedBox : OrbitSmallest(h) /\ ~InAngularWindow(h)
    /\ \E i \in 1..Len(calc.reflections) : Cardinality(Orbit(calc.reflections[i].hkl)) > 1

\* C25: the multiplicity of every located reflection is the length of its
\* list of equivalent hkl and at least 1, and the list holds the seed and
\* every distinct image of the seed under the rotations exactly once
C25_EquivalentsAreTheOrbit ==
    (pc = "done" /\ calc.structureDefined) =>
      \A i \in 1..Len(calc.reflections) :
        /\ calc.reflections[i].multiplicity = Len(calc.reflections[i].equivHKL)
        /\ calc.reflections[i].multiplicity >= 1
        /\ calc.reflections[i].equivHKL[1] = calc.reflections[i].hkl
        /\ Range(calc.reflections[i].equivHKL) = Orbit(calc.reflections[i].hkl)
        /\ Cardinality(Range(calc.reflections[i].equivHKL))
             = Len(calc.reflections[i].equivHKL)

\* located reflections one of which has as many equivalents as there are
\* rotations and another fewer, some rotation leaving its seed in place
C25_Witness ==
    /\ pc = "done" /\ calc.structureDefined
    /\ \E i \in 1..Len(calc.reflections) :
          calc.reflections[i].multiplicity = Len(Operations(iso.symmetry))
    /\ \E i \in 1..Len(calc.reflections) :
          /\ calc.reflections[i].multiplicity > 1
          /\ calc.reflections[i].multiplicity < Len(Operations(iso.symmetry))

\* a first rating with DR_ABS
RatedAbs == pc = "rated" /\ call.rated[1].method = "DR_ABS"

\* the reference peaks with matched intensity
ScaleCandidates ==
    { i \in 1..Len(ref.diffractionPeaks) : MatchedIntensity(calc)[i] # 0 }

\* sum_j |I_ref[j] - s matched[j]| + sum |s I_unmatched| for the candidate
\* s = I_ref[i] / matched[i], times matched[i]
CandidateError(i) ==
    SeqSum([ j \in 1..Len(ref.diffractionPeaks) |->
               Abs(MatchedIntensity(calc)[i] * ReferenceIntensity(ref)[j]
                     - ReferenceIntensity(ref)[i] * MatchedIntensity(calc)[j]) ])
      + SeqSum([ j \in 1..Len(calc.unmatchedPeaks) |->
                   Abs(ReferenceIntensity(ref)[i] * UnmatchedIntensity(calc)[j]) ])

\* the error of candidate i is at most that of candidate j
NoWorse(i, j) ==
    CandidateError(i) * MatchedIntensity(calc)[j]
      <= CandidateError(j) * MatchedIntensity(calc)[i]

\* the candidate of least error, the lowest index among equals
BestCandidate ==
    CHOOSE i \in ScaleCandidates :
       /\ \A j \in ScaleCandidates : NoWorse(i, j)
       /\ \A j \in ScaleCandidates : (j < i) => ~NoWorse(j, i)

\* C26: the scale getCurrentRFactor stores for DR_ABS is the candidate
\* I_ref[i] / matched[i] of least error, the lowest index winning ties, and 1
\* when no reference peak has matched intensity
C26_AbsScaleIsBestCandidate ==
    RatedAbs =>
      /\ ScaleCandidates = {} => RatedScale = [ num |-> 1, den |-> 1 ]
      /\ ScaleCandidates # {} =>
            /\ RatedScale.den # 0
            /\ RatedScale.num * MatchedIntensity(calc)[BestCandidate]
                 = RatedScale.den * ReferenceIntensity(ref)[BestCandidate]
      /\ calc.optimalScale = (1000 * RatedScale.num) \div RatedScale.den

\* a DR_ABS rating in which two candidates of different scale tie for the
\* least error
C26_Witness ==
    /\ RatedAbs
    /\ \E i, j \in ScaleCandidates :
          /\ i < j
          /\ NoWorse(i, j) /\ NoWorse(j, i)
          /\ \A k \in ScaleCandidates : NoWorse(i, k)
          /\ ReferenceIntensity(ref)[i] * MatchedIntensity(calc)[j]
               # ReferenceIntensity(ref)[j] * MatchedIntensity(calc)[i]

\* the grid angle lies in [center + shift - 6H, center + shift + 6H] of
\* reflection p
InProfileWindow(angle, p) ==
    (angle - ShiftedCenter(calc, p)) * (angle - ShiftedCenter(calc, p))
      <= 36 * HSquared(calc)

\* C27: the profile synthesizer adds the term of each reflection at every
\* grid angle inside the reflection's window of 6H around the shifted centre
\* and at no grid angle outside it
C27_SignalInWindow ==
    pc = "signalled" =>
      \A p \in 1..Len(calc.reflections) :
        \A a \in 1..Len(call.grid) :
           (p \in call.signal[a]) <=> InProfileWindow(call.grid[a], p)


\* C28: the peak-location scan of locatePeaks comes to an end on every
\* pattern, a zero second derivative above the tolerance included: each
\* pass of the scan moves on, so the recorded centres strictly increase and
\* no index is recorded twice
C28_ScanCentresIncrease ==
    pc \in { "scanning", "scanned" } =>
        \A i \in 1..Len(call.peakPosition) : \A j \in 1..Len(call.peakPosition) :
            i < j => call.peakPosition[i] < call.peakPosition[j]

\* C29: after CalculatedPattern::set returns, the type of the pattern is
\* PT_CALCULATED and isSet() is true
C29_SetLeavesPatternSet ==
    (pc = "done" /\ call.op = "set") =>
        (calc.type = "PT_CALCULATED" /\ isSet(calc))

\* the indices thisPeak of the peaks the last match went through: each was
\* used to read referencePeaks[thisPeak] at the start of its scan
FirstReferenceReads(c) ==
    Range(c.unmatchedPeaks)
        \cup UNION { Range(c.matchingPeaks[b]) : b \in DOMAIN c.matchingPeaks }

\* C30: matchPeaksToReference reads the reference peak list only at indices
\* inside it, whatever the numbers of calculated and reference peaks, more
\* calculated than reference peaks included
C30_ReferenceReadsInside ==
    Matched =>
        \A thisPeak \in FirstReferenceReads(calc) :
            thisPeak >= 0 /\ thisPeak < NumReferencePeaks

====
